---- MODULE Spec2Model ----
(***************************************************************************)
(* Model of the batch request translation layer of mcp-server-google-forms *)
(* (BatchUpdateFormTool.execute, sortBatchOperations, the request builders *)
(* of utils/request-builders.ts, GFormService.batchUpdateForm and          *)
(* GFormService.createItem). Spec is one call at a time, LiveSpec adds the *)
(* fairness of the steps of execute, ConcurrentSpec interleaves three      *)
(* calls of execute against one remote document.                           *)
(*                                                                         *)
(* Optional JavaScript values are sequences: <<>> is undefined, <<v>> is a *)
(* defined value v.                                                        *)
(***************************************************************************)
EXTENDS Integers, Sequences, FiniteSets, TLC

VARIABLES pc, caller, args, form, processedOps, opIndex, requests, result,
          getFormCalls, batchUpdateCalls, remoteCalls, remoteRequests,
          remoteResponse, remote

vars == <<pc, caller, args, form, processedOps, opIndex, requests, result,
          getFormCalls, batchUpdateCalls, remoteCalls, remoteRequests,
          remoteResponse, remote>>

None == <<>>
Some(v) == <<v>>

(* ---- bounds ---- *)
MaxItems == 3
MaxOps == 2
MaxSortOps == 4
MaxOptions == 2
MaxRows == 2
MaxPathLen == 4

(* ---- sequence helpers ---- *)
Reverse(s) == [i \in 1..Len(s) |-> s[Len(s) + 1 - i]]

RECURSIVE SeqsOfLen(_, _)
SeqsOfLen(S, n) ==
  IF n = 0 THEN {<<>>}
  ELSE {Append(s, x) : s \in SeqsOfLen(S, n - 1), x \in S}

SeqsUpTo(S, n) == UNION {SeqsOfLen(S, k) : k \in 0..n}

(* ---- operation kinds: types/index.ts SUPPORTED_OPERATIONS ---- *)
SUPPORTED_OPERATIONS ==
  {"create_item", "update_item", "delete_item", "move_item",
   "update_form_info", "update_form_settings"}

(* ---- the operation object of BatchUpdateFormTool.parameters ---- *)
(* updateFormSettingsRequest is the payload of the update_form_settings
   variant of BatchOperationSchema (types/index.ts). *)
Op(kind, c, u, d, m, f, s) ==
  [operation |-> kind, createItemRequest |-> c, updateItemRequest |-> u,
   deleteItemRequest |-> d, moveItemRequest |-> m, updateFormInfoRequest |-> f,
   updateFormSettingsRequest |-> s]

CreatePayload(title, index, itemType, questionType) ==
  [title |-> title, description |-> None, index |-> index,
   item_type |-> itemType, question_type |-> questionType,
   options |-> None, required |-> None, include_other |-> None,
   rows |-> None, isGrid |-> None, columns |-> None, gridType |-> None,
   shuffleQuestions |-> None]

CreateOp(c) == Op("create_item", c, None, None, None, None, None)
UpdateOp(u) == Op("update_item", None, u, None, None, None, None)
DeleteOp(d) == Op("delete_item", None, None, d, None, None, None)
MoveOp(m) == Op("move_item", None, None, None, m, None, None)
InfoOp(f) == Op("update_form_info", None, None, None, None, f, None)
SettingsOp(st) == Op("update_form_settings", None, None, None, None, None, st)

TextCreate(title, index) == CreateOp(Some(CreatePayload(title, index, "text", None)))
Delete(i) == DeleteOp(Some([index |-> i]))
Move(i, j) == MoveOp(Some([index |-> i, new_index |-> j]))
Update(item, i, mask) == UpdateOp(Some([item |-> item, index |-> i, update_mask |-> mask]))
Info(t, d) == InfoOp(Some([title |-> t, description |-> d]))
Settings(e, q) == SettingsOp(Some([email_collection_type |-> e, is_quiz |-> q]))

(* ---- utils/request-builders.ts ---- *)
(* An Error value returned (not thrown) by a builder. *)
Err(msg) == [type |-> "Error", message |-> msg]

(* `x ?? d` on an optional value *)
OrElse(x, d) == IF x = None THEN d ELSE x[1]

(* JavaScript truthiness of an optional boolean *)
Truthy(x) == x # None /\ x[1] = TRUE

(* JavaScript truthiness of an optional list test `!xs || xs.length === 0` *)
MissingOrEmpty(xs) == xs = None \/ Len(xs[1]) = 0

MapSeq(F(_), s) == [i \in 1..Len(s) |-> F(s[i])]

OptionOf(opt) == [value |-> opt]
OtherOption == [isOther |-> TRUE]
RowQuestionOf(row) ==
  [required |-> OrElse(row.required, FALSE), rowQuestion |-> [title |-> row.title]]

(* The item body built by the switch on params.itemType; an Error when a
   branch throws. *)
buildItemBody(params) ==
  CASE params.itemType = "text" -> [kind |-> "textItem"]
    [] params.itemType = "pageBreak" -> [kind |-> "pageBreakItem"]
    [] params.itemType = "question" ->
         IF params.questionType = None
         THEN Err("questionType is required for a question item")
         ELSE IF params.questionType[1] \in {"TEXT", "PARAGRAPH_TEXT"}
         THEN [kind |-> "questionItem",
               required |-> OrElse(params.required, FALSE),
               textQuestion |-> [paragraph |-> params.questionType[1] = "PARAGRAPH_TEXT"]]
         ELSE IF MissingOrEmpty(params.options)
         THEN Err("choice questions require options")
         ELSE [kind |-> "questionItem",
               required |-> OrElse(params.required, FALSE),
               choiceQuestion |->
                 [type |-> params.questionType[1],
                  options |->
                    MapSeq(OptionOf, params.options[1]) \o
                    (IF Truthy(params.includeOther) /\
                        params.questionType[1] \in {"RADIO", "CHECKBOX"}
                     THEN <<OtherOption>> ELSE <<>>)]]
    [] params.itemType = "questionGroup" ->
         IF MissingOrEmpty(params.rows)
         THEN Err("question group requires at least one row")
         ELSE IF ~Truthy(params.isGrid)
         THEN [kind |-> "questionGroupItem",
               questions |-> MapSeq(RowQuestionOf, params.rows[1]),
               grid |-> None]
         ELSE IF MissingOrEmpty(params.columns)
         THEN Err("grid question group requires columns")
         ELSE IF params.gridType = None
         THEN Err("grid question group requires a selection type")
         ELSE [kind |-> "questionGroupItem",
               questions |-> MapSeq(RowQuestionOf, params.rows[1]),
               grid |-> Some([shuffleQuestions |-> OrElse(params.shuffleQuestions, FALSE),
                              columns |-> [type |-> params.gridType[1],
                                           options |-> MapSeq(OptionOf, params.columns[1])]])]
    [] OTHER -> Err("unknown item type")

(* `location: { index: params.index ?? 0 }` *)
createItemLocation(params) == [index |-> OrElse(params.index, 0)]

buildCreateItemRequest(params) ==
  IF params.title = ""
  THEN Err("title is required when creating an item")
  ELSE LET body == buildItemBody(params) IN
       IF "type" \in DOMAIN body
       THEN body
       ELSE [type |-> "createItem",
             item |-> [title |-> params.title,
                       description |->
                         IF params.description # None /\ params.description[1] # ""
                         THEN params.description ELSE None,
                       body |-> body],
             location |-> createItemLocation(params)]

(* Variant: required is accepted whatever the kind of the current item *)
buildUpdateItemRequest_noKindCheck(params, currentItem) ==
  LET titlePart == IF params.title # None THEN <<"title">> ELSE <<>>
      descPart == IF params.description # None THEN <<"description">> ELSE <<>>
      reqPart == IF params.required # None
                 THEN <<"questionItem.question.required">> ELSE <<>>
      updateMaskParts == titlePart \o descPart \o reqPart
  IN IF Len(updateMaskParts) = 0
     THEN Err("no fields to update were specified")
     ELSE [type |-> "updateItem",
           item |-> [title |-> params.title, description |-> params.description,
                     required |-> params.required],
           location |-> [index |-> params.index],
           updateMask |-> updateMaskParts]

(* updateMaskParts.join(",") is kept as the list of its parts. *)
buildUpdateItemRequest(params, currentItem) ==
  LET titlePart == IF params.title # None THEN <<"title">> ELSE <<>>
      descPart == IF params.description # None THEN <<"description">> ELSE <<>>
      isQuestion == currentItem # None /\ currentItem[1].kind = "questionItem"
      reqPart == IF params.required # None
                 THEN <<"questionItem.question.required">> ELSE <<>>
      updateMaskParts == titlePart \o descPart \o reqPart
  IN IF params.required # None /\ ~isQuestion
     THEN Err("required can only be set on question items")
     ELSE IF Len(updateMaskParts) = 0
     THEN Err("no fields to update were specified")
     ELSE [type |-> "updateItem",
           item |-> [title |-> params.title, description |-> params.description,
                     required |-> params.required],
           location |-> [index |-> params.index],
           updateMask |-> updateMaskParts]

buildDeleteItemRequest(params) ==
  [type |-> "deleteItem", location |-> [index |-> params.index]]

(* Variant: source and destination exchanged *)
buildMoveItemRequest_swapped(params) ==
  [type |-> "moveItem",
   originalLocation |-> [index |-> params.newIndex],
   newLocation |-> [index |-> params.index]]

buildMoveItemRequest(params) ==
  [type |-> "moveItem",
   originalLocation |-> [index |-> params.index],
   newLocation |-> [index |-> params.newIndex]]

(* Array.prototype.join on a list of strings *)
RECURSIVE join(_, _)
(* Variant: the last part is written first *)
join_lastFirst(parts, sep) ==
  IF Len(parts) = 0 THEN ""
  ELSE IF Len(parts) = 1 THEN parts[1]
  ELSE parts[Len(parts)] \o sep \o join(SubSeq(parts, 1, Len(parts) - 1), sep)

join(parts, sep) ==
  IF Len(parts) = 0 THEN ""
  ELSE IF Len(parts) = 1 THEN parts[1]
  ELSE parts[1] \o sep \o join(Tail(parts), sep)

(* Variant: an update with no field is built with an empty mask *)
buildUpdateFormInfoRequest_allowsEmpty(params) ==
  [type |-> "updateFormInfo",
   info |-> [title |-> params.title, description |-> params.description],
   updateMask |-> join((IF params.title # None THEN <<"title">> ELSE <<>>) \o
                       (IF params.description # None THEN <<"description">> ELSE <<>>),
                       ",")]

buildUpdateFormInfoRequest(params) ==
  LET titlePart == IF params.title # None THEN <<"title">> ELSE <<>>
      descPart == IF params.description # None THEN <<"description">> ELSE <<>>
      updateMaskParts == titlePart \o descPart
  IN IF Len(updateMaskParts) = 0
     THEN Err("no form information specified to update")
     ELSE [type |-> "updateFormInfo",
           info |-> [title |-> params.title, description |-> params.description],
           updateMask |-> join(updateMaskParts, ",")]

(* ---- the later request builders (utils/env.ts, lines 120-468) ---- *)
(* JavaScript truthiness of an optional string *)
TruthyStr(x) == x # None /\ x[1] # ""

(* Variant: both branching fields of an option are copied *)
WireOptionOf_copiesBoth(opt) ==
  [value |-> opt.value,
   goToAction |-> IF TruthyStr(opt.goToAction) THEN opt.goToAction ELSE None,
   goToSectionId |-> IF TruthyStr(opt.goToSectionId) THEN opt.goToSectionId ELSE None]

(* One pass of the loop over params.options: goToAction is copied when
   truthy, else goToSectionId when truthy. *)
WireOptionOf(opt) ==
  [value |-> opt.value,
   goToAction |-> IF TruthyStr(opt.goToAction) THEN opt.goToAction ELSE None,
   goToSectionId |->
     IF ~TruthyStr(opt.goToAction) /\ TruthyStr(opt.goToSectionId)
     THEN opt.goToSectionId ELSE None]

ColumnOf(col) == [value |-> col.value]

(* Variant: the "Other" option is appended for every choice type *)
otherOptionSuffix_anyType(includeOther, questionType) ==
  IF Truthy(includeOther) THEN <<OtherOption>> ELSE <<>>

(* `if (include_other && (type === "RADIO" || type === "CHECKBOX"))
      optionsArray.push({ isOther: true })` *)
otherOptionSuffix(includeOther, questionType) ==
  IF Truthy(includeOther) /\ questionType \in {"RADIO", "CHECKBOX"}
  THEN <<OtherOption>> ELSE <<>>

(* question.grading: pointValue and correctAnswers are copied; the feedback
   texts are copied the same way and carry no condition of their own. *)
gradingOf(params) ==
  IF params.grading = None THEN None
  ELSE Some([pointValue |-> params.grading[1].pointValue,
             correctAnswers |-> params.grading[1].correctAnswers])

(* Variant: a grid without columns or selection type is built as a plain
   question group *)
buildQuestionGroupBody_v2_lenientGrid(g) ==
  IF g = None \/ MissingOrEmpty(g[1].rows)
  THEN Err("Question group requires at least one row (question)")
  ELSE IF ~Truthy(g[1].is_grid) \/ MissingOrEmpty(g[1].columns) \/ g[1].grid_type = None
  THEN [kind |-> "questionGroupItem",
        questions |-> MapSeq(RowQuestionOf, g[1].rows[1]),
        grid |-> None]
  ELSE [kind |-> "questionGroupItem",
        questions |-> MapSeq(RowQuestionOf, g[1].rows[1]),
        grid |-> Some([shuffleQuestions |-> OrElse(g[1].shuffle_questions, FALSE),
                       columns |-> [type |-> g[1].grid_type[1],
                                    options |-> MapSeq(ColumnOf, g[1].columns[1])]])]

(* case "questionGroup" of the later builder, on params.question_group_params *)
buildQuestionGroupBody_v2(g) ==
  IF g = None \/ MissingOrEmpty(g[1].rows)
  THEN Err("Question group requires at least one row (question)")
  ELSE IF ~Truthy(g[1].is_grid)
  THEN [kind |-> "questionGroupItem",
        questions |-> MapSeq(RowQuestionOf, g[1].rows[1]),
        grid |-> None]
  ELSE IF MissingOrEmpty(g[1].columns)
  THEN Err("Grid-style question group requires columns (options)")
  ELSE IF g[1].grid_type = None
  THEN Err("Grid-style question group requires a selection type (CHECKBOX or RADIO)")
  ELSE [kind |-> "questionGroupItem",
        questions |-> MapSeq(RowQuestionOf, g[1].rows[1]),
        grid |-> Some([shuffleQuestions |-> OrElse(g[1].shuffle_questions, FALSE),
                       columns |-> [type |-> g[1].grid_type[1],
                                    options |-> MapSeq(ColumnOf, g[1].columns[1])]])]

(* The switch on params.item_type of the later builder *)
buildItemBody_v2(params) ==
  CASE params.item_type = "text" -> [kind |-> "textItem"]
    [] params.item_type = "pageBreak" -> [kind |-> "pageBreakItem"]
    [] params.item_type = "question" ->
         IF params.question_type = None
         THEN Err("questionType is required when creating a question item")
         ELSE IF params.question_type[1] \in {"TEXT", "PARAGRAPH_TEXT"}
         THEN [kind |-> "questionItem",
               required |-> OrElse(params.required, FALSE),
               grading |-> gradingOf(params),
               textQuestion |-> [paragraph |-> params.question_type[1] = "PARAGRAPH_TEXT"]]
         ELSE IF MissingOrEmpty(params.options)
         THEN Err("Multiple-choice questions require options")
         ELSE [kind |-> "questionItem",
               required |-> OrElse(params.required, FALSE),
               grading |-> gradingOf(params),
               choiceQuestion |->
                 [type |-> params.question_type[1],
                  options |->
                    MapSeq(WireOptionOf, params.options[1]) \o
                    otherOptionSuffix(params.include_other, params.question_type[1])]]
    [] params.item_type = "questionGroup" ->
         buildQuestionGroupBody_v2(params.question_group_params)
    [] OTHER -> Err("Unknown item type")

buildCreateItemRequest_v2(params) ==
  IF params.title = ""
  THEN Err("Title is required when creating an item")
  ELSE LET body == buildItemBody_v2(params) IN
       IF "type" \in DOMAIN body
       THEN body
       ELSE [type |-> "createItem",
             item |-> [title |-> params.title,
                       description |->
                         IF TruthyStr(params.description)
                         THEN params.description ELSE None,
                       body |-> body],
             location |-> [index |-> OrElse(params.index, 0)]]

(* buildUpdateFormSettingsRequest reads email_collection_type and is_quiz
   only; quizSettings is created when is_quiz is given. *)
buildUpdateFormSettingsRequest(params) ==
  LET emailPart == IF params.email_collection_type # None
                   THEN <<"emailCollectionType">> ELSE <<>>
      quizPart == IF params.is_quiz # None THEN <<"quizSettings.isQuiz">> ELSE <<>>
      updateMaskParts == emailPart \o quizPart
  IN IF Len(updateMaskParts) = 0
     THEN Err("No form settings specified to update")
     ELSE [type |-> "updateSettings",
           settings |->
             [emailCollectionType |-> params.email_collection_type,
              quizSettings |->
                IF params.is_quiz # None
                THEN Some([isQuiz |-> params.is_quiz, releaseGrade |-> None])
                ELSE None],
           updateMask |-> updateMaskParts]

(* ---- utils/extract-form-id.ts ---- *)
(* A URL is [parses, parts]: whether `new URL` accepts the string, and
   url.pathname.split("/") (the first part is always ""). *)
IncludesSegments(parts, segs) ==
  \E i \in 2..Len(parts) :
    /\ i + Len(segs) <= Len(parts)
    /\ \A k \in 1..Len(segs) : parts[i + k - 1] = segs[k]

(* pathParts.findIndex((part) => part === seg) + 1, 0-based *)
IndexAfter(parts, seg) ==
  IF \E i \in 1..Len(parts) : parts[i] = seg
  THEN (CHOOSE i \in 1..Len(parts) :
          parts[i] = seg /\ \A j \in 1..(i - 1) : parts[j] # seg)
  ELSE 0

extractFormId(url) ==
  IF ~url.parses THEN [threw |-> TRUE, message |-> "Invalid URL"]
  ELSE IF IncludesSegments(url.parts, <<"forms", "d", "e">>) /\
          IndexAfter(url.parts, "e") > 0 /\
          IndexAfter(url.parts, "e") < Len(url.parts)
  THEN [threw |-> FALSE, formId |-> url.parts[IndexAfter(url.parts, "e") + 1]]
  ELSE IF IncludesSegments(url.parts, <<"forms", "d">>) /\
          IndexAfter(url.parts, "d") > 0 /\
          IndexAfter(url.parts, "d") < Len(url.parts)
  THEN [threw |-> FALSE, formId |-> url.parts[IndexAfter(url.parts, "d") + 1]]
  ELSE [threw |-> TRUE, message |-> "Form ID not found"]

(* ---- the later extractFormId ---- *)
(* A URL is [parses, hostname, parts]; parts[k + 1] is pathParts[k]. *)
(* `url.pathname.startsWith('/forms/d/')` *)
UnderFormsD(parts) ==
  Len(parts) >= 4 /\ parts[2] = "forms" /\ parts[3] = "d"

(* The segment assigned to formId, None when it stays undefined *)
formIdSegment(parts) ==
  IF parts[4] = "e"
  THEN IF Len(parts) > 4 /\ parts[5] # "" THEN Some(parts[5]) ELSE None
  ELSE IF parts[4] # "" THEN Some(parts[4]) ELSE None

Thrown(cause) ==
  [threw |-> TRUE, prefix |-> "Error parsing form URL: ", cause |-> cause]

(* Variant: the host name is not looked at *)
extractFormId_v2_anyHost(url) ==
  IF ~url.parses THEN Thrown("Invalid URL")
  ELSE IF ~UnderFormsD(url.parts)
  THEN Thrown("Invalid Google Forms URL")
  ELSE IF formIdSegment(url.parts) = None
  THEN Thrown("Form ID not found in URL path")
  ELSE IF formIdSegment(url.parts)[1] \in {"edit", "viewform"}
  THEN Thrown("Form ID not found in URL path")
  ELSE [threw |-> FALSE, formId |-> formIdSegment(url.parts)[1]]

extractFormId_v2(url) ==
  IF ~url.parses THEN Thrown("Invalid URL")
  ELSE IF url.hostname # "docs.google.com" \/ ~UnderFormsD(url.parts)
  THEN Thrown("Invalid Google Forms URL")
  ELSE IF formIdSegment(url.parts) = None
  THEN Thrown("Form ID not found in URL path")
  ELSE IF formIdSegment(url.parts)[1] \in {"edit", "viewform"}
  THEN Thrown("Form ID not found in URL path")
  ELSE [threw |-> FALSE, formId |-> formIdSegment(url.parts)[1]]

(* ---- tools/batch-update-form.ts ---- *)
IsCreate(op) == op.operation = "create_item"
IsOther(op) == op.operation # "create_item"

(* Variant: creations front-loaded but not reversed *)
sortBatchOperations_noReverse(operations) ==
  SelectSeq(operations, IsCreate) \o SelectSeq(operations, IsOther)

sortBatchOperations(operations) ==
  LET createOps == SelectSeq(operations, IsCreate)
      otherOps == SelectSeq(operations, IsOther)
      reversedCreateOps == Reverse(createOps)
  IN reversedCreateOps \o otherOps

(* A `throw new Error(...)` inside the switch on op.operation *)
Throw(msg) == [type |-> "Throw", message |-> msg]

(* Variant: the upper bound is tested with > instead of >= *)
IndexOutOfRange_offByOne(itemIndex, f) ==
  itemIndex < 0 \/ f.items = None \/ itemIndex > Len(f.items[1])

(* `itemIndex < 0 || !form.items || itemIndex >= form.items.length` *)
IndexOutOfRange(itemIndex, f) ==
  itemIndex < 0 \/ f.items = None \/ itemIndex >= Len(f.items[1])

(* `newIndex < 0 || newIndex > form.items.length` *)
NewIndexOutOfRange(newIndex, f) ==
  newIndex < 0 \/ newIndex > Len(f.items[1])

(* The object literal handed to buildCreateItemRequest *)
CreateItemCallParams(c) ==
  [title |-> c.title, description |-> c.description, index |-> c.index,
   itemType |-> c.item_type, questionType |-> c.question_type,
   options |-> c.options, required |-> c.required,
   includeOther |-> c.include_other, rows |-> c.rows, isGrid |-> c.isGrid,
   columns |-> c.columns, gridType |-> c.gridType,
   shuffleQuestions |-> c.shuffleQuestions]

(* The object literal handed to buildUpdateItemRequest is
   { item, location: { index }, updateMask }: it has none of the properties
   index, title, description, required that the builder reads. *)
UpdateItemCallParams(u) ==
  [index |-> None, title |-> None, description |-> None, required |-> None]

(* The body of the switch on op.operation for one operation: a wire
   request, an Error returned by a builder, or a thrown Error. *)
operationRequest(op, f) ==
  CASE op.operation = "create_item" ->
         IF op.createItemRequest = None
         THEN Throw("createItemRequest is required when creating an item")
         ELSE buildCreateItemRequest(CreateItemCallParams(op.createItemRequest[1]))
    [] op.operation = "update_item" ->
         IF op.updateItemRequest = None
         THEN Throw("updateItemRequest is required for update_item operations")
         ELSE LET u == op.updateItemRequest[1] IN
              IF IndexOutOfRange(u.index, f) THEN Throw("Index is out of range")
              ELSE IF u.item = None THEN Throw("'item' is required in updateItemRequest")
              ELSE IF u.update_mask = ""
              THEN Throw("'update_mask' is required in updateItemRequest")
              ELSE buildUpdateItemRequest(UpdateItemCallParams(u), None)
    [] op.operation = "delete_item" ->
         IF op.deleteItemRequest = None
         THEN Throw("deleteItemRequest is required when deleting an item")
         ELSE LET itemIndex == op.deleteItemRequest[1].index IN
              IF IndexOutOfRange(itemIndex, f) THEN Throw("Index is out of range")
              ELSE buildDeleteItemRequest([index |-> itemIndex])
    [] op.operation = "move_item" ->
         IF op.moveItemRequest = None
         THEN Throw("moveItemRequest is required when moving an item")
         ELSE LET itemIndex == op.moveItemRequest[1].index
                  newIndex == op.moveItemRequest[1].new_index
              IN IF IndexOutOfRange(itemIndex, f) THEN Throw("Index is out of range")
                 ELSE IF NewIndexOutOfRange(newIndex, f)
                 THEN Throw("New index is out of range")
                 ELSE buildMoveItemRequest([index |-> itemIndex, newIndex |-> newIndex])
    [] op.operation = "update_form_info" ->
         IF op.updateFormInfoRequest = None
         THEN Throw("updateFormInfoRequest is required when updating form info")
         ELSE buildUpdateFormInfoRequest(
                [title |-> op.updateFormInfoRequest[1].title,
                 description |-> op.updateFormInfoRequest[1].description])
    [] OTHER -> Throw("Unknown operation type")

(* `Error occurred in operation #${opIndex + 1}: ...` *)
operationNumber(index) == index + 1

(* detail: the message of the error thrown by forms.batchUpdate, which ends
   the text of the result; operations, itemCount: the numbered list and the
   item count of the success text. *)
ErrorResult(number, cause) ==
  [isError |-> TRUE, opNumber |-> number, cause |-> cause, count |-> 0,
   detail |-> None, operations |-> <<>>, itemCount |-> 0]

(* `Error: ` + `フォームの更新中にエラーが発生しました: ` + error.message *)
RemoteFailureResult(message) ==
  [ErrorResult(None, "batchUpdate failed") EXCEPT !.detail = Some(message)]

(* `"${o.value}"`, then ` (→${goToAction})` else ` (→Section:${goToSectionId})` *)
formatOption(o) ==
  [value |-> o.value,
   arrow |-> IF TruthyStr(o.goToAction) THEN o.goToAction
             ELSE IF TruthyStr(o.goToSectionId)
             THEN Some("Section:" \o o.goToSectionId[1])
             ELSE None]

(* formatOperation: the fields shown for an operation, or a Throw *)
formatOperation(op) ==
  CASE op.operation = "create_item" ->
         IF op.createItemRequest = None
         THEN Throw("createItemRequest is required")
         ELSE LET req == op.createItemRequest[1] IN
              [type |-> "Create item", itemType |-> req.item_type,
               title |-> req.title, position |-> req.index,
               options |-> IF req.options = None THEN None
                           ELSE Some(MapSeq(formatOption, req.options[1]))]
    [] op.operation = "update_item" ->
         [type |-> "Update item",
          index |-> IF op.updateItemRequest = None THEN None
                    ELSE Some(op.updateItemRequest[1].index),
          fields |-> IF op.updateItemRequest = None THEN None
                     ELSE Some(op.updateItemRequest[1].update_mask)]
    [] op.operation = "delete_item" ->
         [type |-> "Delete item",
          index |-> IF op.deleteItemRequest = None THEN None
                    ELSE Some(op.deleteItemRequest[1].index)]
    [] op.operation = "move_item" ->
         [type |-> "Move item",
          index |-> IF op.moveItemRequest = None THEN None
                    ELSE Some(op.moveItemRequest[1].index),
          newIndex |-> IF op.moveItemRequest = None THEN None
                       ELSE Some(op.moveItemRequest[1].new_index)]
    [] op.operation = "update_form_info" ->
         [type |-> "Update form info",
          title |-> IF op.updateFormInfoRequest = None THEN None
                    ELSE op.updateFormInfoRequest[1].title,
          description |-> IF op.updateFormInfoRequest = None THEN None
                          ELSE op.updateFormInfoRequest[1].description]
    [] OTHER -> [type |-> "Unknown operation", operation |-> op.operation]

(* `${i + 1}. ${this.formatOperation(op)}` for each element of ops *)
operationLines(ops) ==
  [i \in 1..Len(ops) |-> [number |-> i, description |-> formatOperation(ops[i])]]

(* `result.form?.items?.length ?? 0` *)
responseItemCount(response) ==
  IF response.form = None \/ response.form[1].items = None THEN 0
  ELSE Len(response.form[1].items[1])

(* Variant: the text of the result cannot be built after the batch was applied *)
SuccessResult_formatThrows(n, ops, response) ==
  ErrorResult(None, "createItemRequest is required")

(* The text of a successful call: "Executed n operations", the numbered
   operations, the item count. A throw of formatOperation is caught by the
   catch of execute. *)
SuccessResult(n, ops, response) ==
  IF \E i \in 1..Len(ops) : "message" \in DOMAIN formatOperation(ops[i])
  THEN ErrorResult(None, "createItemRequest is required")
  ELSE [isError |-> FALSE, opNumber |-> None, cause |-> "", count |-> n,
        detail |-> None, operations |-> operationLines(ops),
        itemCount |-> responseItemCount(response)]

RemoteData(f) == [ok |-> TRUE, message |-> "", form |-> f]
RemoteError(message) == [ok |-> FALSE, message |-> message, form |-> None]

(* ---- utils/api.ts GFormService.batchUpdateForm ---- *)
(* `if (requests.length === 0) throw` happens before the remote call. *)
batchUpdateFormRejects(reqs) == Len(reqs) = 0

(* ---- inputs ---- *)
GoodUrl == [parses |-> TRUE, parts |-> <<"", "forms", "d", "e", "FORM_ID", "edit">>]
Urls ==
  {GoodUrl,
   [parses |-> FALSE, parts |-> <<>>],
   [parses |-> TRUE, parts |-> <<"", "search">>]}

(* Snapshots returned by forms.get: no items list, or 0..MaxItems items. *)
(* The first item of a snapshot is a question item, the others are text items. *)
ItemAt(i) == [kind |-> IF i = 1 THEN "questionItem" ELSE "textItem"]

Forms ==
  {[items |-> None]} \cup
  {[items |-> Some([i \in 1..n |-> ItemAt(i)])] : n \in 0..MaxItems}

AnItem == Some([title |-> "T"])

OpInputs ==
  {CreateOp(None),
   TextCreate("", None),
   TextCreate("A", None),
   TextCreate("B", Some(0)),
   TextCreate("A", Some(MaxItems + 1)),
   CreateOp(Some(CreatePayload("Q", None, "question", None))),
   DeleteOp(None),
   Delete(0 - 1), Delete(0), Delete(2), Delete(MaxItems - 1), Delete(MaxItems),
   MoveOp(None),
   Move(0, 2), Move(0, MaxItems - 1), Move(0, MaxItems), Move(0, MaxItems + 1),
   Move(MaxItems, 0), Move(0, 0 - 1),
   UpdateOp(None),
   Update(AnItem, 0, "title"), Update(AnItem, MaxItems, "title"),
   Update(None, 0, "title"), Update(AnItem, 0, ""),
   Update(AnItem, 1, "questionItem.question.required"),
   InfoOp(None),
   Info(Some("New title"), None), Info(None, None),
   Settings(None, Some(TRUE)), Settings(None, None)}

(* Longer batches over a small alphabet, for the reordering of creations. *)
SortInputs ==
  {TextCreate("A", None), TextCreate("B", None), TextCreate("C", None),
   Delete(0), Delete(MaxItems)}

Batches == SeqsUpTo(OpInputs, MaxOps) \cup SeqsUpTo(SortInputs, MaxSortOps)

(* Request lists handed to GFormService.batchUpdateForm by a direct caller *)
DirectRequests == {<<>>, <<buildDeleteItemRequest([index |-> 0])>>}

(* What forms.batchUpdate answers: data with the updated form, or an error *)
RemoteMessages == {"Quota exceeded", "Invalid requests[0]"}

ResponseForms ==
  {None, Some([items |-> None])} \cup
  {Some([items |-> Some([i \in 1..n |-> ItemAt(i)])]) : n \in 0..(MaxItems + 1)}

NoArgs == [form_url |-> None, operations |-> <<>>]

(* The remote document: the item list at the start, the item list now, and
   the batches received so far in the order of their arrival. *)
NoRemote == [initial |-> <<>>, items |-> <<>>, log |-> <<>>]

(* ---- state machine ---- *)
Init ==
  /\ pc = "idle"
  /\ caller = "none"
  /\ args = NoArgs
  /\ form = None
  /\ processedOps = <<>>
  /\ opIndex = 0
  /\ requests = <<>>
  /\ result = None
  /\ getFormCalls = 0
  /\ batchUpdateCalls = 0
  /\ remoteCalls = 0
  /\ remoteRequests = None
  /\ remoteResponse = None
  /\ remote = NoRemote

(* execute, up to `await service.getForm(formId)` *)
execute_called(url, ops) ==
  /\ args' = [form_url |-> Some(url), operations |-> ops]
  /\ IF extractFormId(url).threw
     THEN /\ pc' = "done"
          /\ result' = Some(ErrorResult(None, "Error parsing form URL"))
          /\ getFormCalls' = 0
     ELSE /\ pc' = "fetching"
          /\ result' = None
          /\ getFormCalls' = 1
  /\ caller' = "execute"
  /\ form' = None
  /\ processedOps' = <<>>
  /\ opIndex' = 0
  /\ requests' = <<>>
  /\ batchUpdateCalls' = 0
  /\ remoteCalls' = 0
  /\ remoteRequests' = None
  /\ remoteResponse' = None
  /\ UNCHANGED remote

execute_start ==
  /\ pc = "idle"
  /\ \E url \in Urls, ops \in Batches : execute_called(url, ops)

(* getForm throws (forms.get failed) *)
execute_getFormThrows ==
  /\ pc = "fetching"
  /\ pc' = "done"
  /\ result' = Some(ErrorResult(None, "getForm failed"))
  /\ UNCHANGED <<caller, args, form, processedOps, opIndex, requests,
                 getFormCalls, batchUpdateCalls, remoteCalls, remoteRequests,
                 remoteResponse>>
  /\ UNCHANGED remote

(* getForm returns nothing: `if (!form) throw new Error("Form not found.")` *)
execute_formNotFound ==
  /\ pc = "fetching"
  /\ pc' = "done"
  /\ result' = Some(ErrorResult(None, "Form not found."))
  /\ UNCHANGED <<caller, args, form, processedOps, opIndex, requests,
                 getFormCalls, batchUpdateCalls, remoteCalls, remoteRequests,
                 remoteResponse>>
  /\ UNCHANGED remote

(* getForm returns the snapshot; requests = [], processedOps = sort(...) *)
execute_getFormReturns ==
  /\ pc = "fetching"
  /\ \E f \in Forms : form' = Some(f)
  /\ requests' = <<>>
  /\ processedOps' = sortBatchOperations(args.operations)
  /\ opIndex' = 0
  /\ pc' = "validating"
  /\ UNCHANGED <<caller, args, result, getFormCalls, batchUpdateCalls,
                 remoteCalls, remoteRequests, remoteResponse>>
  /\ UNCHANGED remote

(* One iteration of `for (const [opIndex, op] of processedOps.entries())`
   that pushes a request *)
execute_buildRequest ==
  /\ pc = "validating"
  /\ opIndex < Len(processedOps)
  /\ LET request == operationRequest(processedOps[opIndex + 1], form[1]) IN
       /\ request.type \notin {"Error", "Throw"}
       /\ requests' = Append(requests, request)
  /\ opIndex' = opIndex + 1
  /\ UNCHANGED <<pc, caller, args, form, processedOps, result, getFormCalls,
                 batchUpdateCalls, remoteCalls, remoteRequests, remoteResponse>>
  /\ UNCHANGED remote

(* Variant: a failing operation is skipped and the loop goes on *)
execute_operationFails_skips ==
  /\ pc = "validating"
  /\ opIndex < Len(processedOps)
  /\ operationRequest(processedOps[opIndex + 1], form[1]).type \in {"Error", "Throw"}
  /\ opIndex' = opIndex + 1
  /\ UNCHANGED <<pc, caller, args, form, processedOps, requests, result,
                 getFormCalls, batchUpdateCalls, remoteCalls, remoteRequests,
                 remoteResponse>>
  /\ UNCHANGED remote

(* One iteration that throws: the loop and the whole batch are abandoned *)
execute_operationFails ==
  /\ pc = "validating"
  /\ opIndex < Len(processedOps)
  /\ LET request == operationRequest(processedOps[opIndex + 1], form[1]) IN
       /\ request.type \in {"Error", "Throw"}
       /\ result' = Some(ErrorResult(Some(operationNumber(opIndex)), request.message))
  /\ pc' = "done"
  /\ UNCHANGED <<caller, args, form, processedOps, opIndex, requests,
                 getFormCalls, batchUpdateCalls, remoteCalls, remoteRequests,
                 remoteResponse>>
  /\ UNCHANGED remote

(* Variant: the empty request list is handed to batchUpdateForm *)
execute_noOperations_submits ==
  /\ pc = "validating"
  /\ opIndex = Len(processedOps)
  /\ Len(requests) = 0
  /\ pc' = "done"
  /\ batchUpdateCalls' = batchUpdateCalls + 1
  /\ result' = Some(ErrorResult(None, "No requests to execute"))
  /\ UNCHANGED <<caller, args, form, processedOps, opIndex, requests,
                 getFormCalls, remoteCalls, remoteRequests, remoteResponse>>
  /\ UNCHANGED remote

(* `if (requests.length === 0) throw new Error("No operations to execute")` *)
execute_noOperations ==
  /\ pc = "validating"
  /\ opIndex = Len(processedOps)
  /\ Len(requests) = 0
  /\ pc' = "done"
  /\ result' = Some(ErrorResult(None, "No operations to execute"))
  /\ UNCHANGED <<caller, args, form, processedOps, opIndex, requests,
                 getFormCalls, batchUpdateCalls, remoteCalls, remoteRequests,
                 remoteResponse>>
  /\ UNCHANGED remote

(* Variant: the requests built so far are submitted before the loop ends *)
execute_submit_early ==
  /\ pc = "validating"
  /\ Len(requests) # 0
  /\ batchUpdateCalls' = batchUpdateCalls + 1
  /\ pc' = "submitting"
  /\ remoteCalls' = remoteCalls + 1
  /\ remoteRequests' = Some(requests)
  /\ remoteResponse' = None
  /\ UNCHANGED <<caller, args, form, processedOps, opIndex, requests,
                 getFormCalls, result>>
  /\ UNCHANGED remote

(* `await service.batchUpdateForm(formId, requests)`: the service method
   is entered and, unless it rejects the list, calls forms.batchUpdate *)
execute_submit ==
  /\ pc = "validating"
  /\ opIndex = Len(processedOps)
  /\ Len(requests) # 0
  /\ batchUpdateCalls' = batchUpdateCalls + 1
  /\ IF batchUpdateFormRejects(requests)
     THEN /\ pc' = "done"
          /\ result' = Some(ErrorResult(None, "No requests to execute"))
          /\ UNCHANGED <<remoteCalls, remoteRequests, remoteResponse>>
     ELSE /\ pc' = "submitting"
          /\ remoteCalls' = remoteCalls + 1
          /\ remoteRequests' = Some(requests)
          /\ remoteResponse' = None
          /\ UNCHANGED result
  /\ UNCHANGED <<caller, args, form, processedOps, opIndex, requests, getFormCalls>>
  /\ UNCHANGED remote

(* Variant: the operations are listed in the order they were processed *)
execute_batchUpdateReturns_listsProcessed ==
  /\ pc = "submitting"
  /\ caller = "execute"
  /\ pc' = "done"
  /\ \E f \in ResponseForms :
       /\ remoteResponse' = Some(RemoteData(f))
       /\ result' = Some(SuccessResult(Len(requests), processedOps, RemoteData(f)))
  /\ UNCHANGED <<caller, args, form, processedOps, opIndex, requests,
                 getFormCalls, batchUpdateCalls, remoteCalls, remoteRequests>>
  /\ UNCHANGED remote

(* forms.batchUpdate succeeded: the success result is returned *)
execute_batchUpdateReturns ==
  /\ pc = "submitting"
  /\ caller = "execute"
  /\ pc' = "done"
  /\ \E f \in ResponseForms :
       /\ remoteResponse' = Some(RemoteData(f))
       /\ result' = Some(SuccessResult(Len(requests), args.operations, RemoteData(f)))
  /\ UNCHANGED <<caller, args, form, processedOps, opIndex, requests,
                 getFormCalls, batchUpdateCalls, remoteCalls, remoteRequests>>
  /\ UNCHANGED remote

(* Variant: a failed submission is submitted a second time *)
execute_batchUpdateThrows_retries ==
  /\ pc = "submitting"
  /\ caller = "execute"
  /\ pc' = "done"
  /\ \E message \in RemoteMessages :
       /\ remoteResponse' = Some(RemoteError(message))
       /\ result' = Some(RemoteFailureResult(message))
  /\ batchUpdateCalls' = batchUpdateCalls + 1
  /\ remoteCalls' = remoteCalls + 1
  /\ UNCHANGED <<caller, args, form, processedOps, opIndex, requests,
                 getFormCalls, remoteRequests>>
  /\ UNCHANGED remote

(* forms.batchUpdate failed: batchUpdateForm rethrows, execute catches *)
execute_batchUpdateThrows ==
  /\ pc = "submitting"
  /\ caller = "execute"
  /\ pc' = "done"
  /\ \E message \in RemoteMessages :
       /\ remoteResponse' = Some(RemoteError(message))
       /\ result' = Some(RemoteFailureResult(message))
  /\ UNCHANGED <<caller, args, form, processedOps, opIndex, requests,
                 getFormCalls, batchUpdateCalls, remoteCalls, remoteRequests>>
  /\ UNCHANGED remote

(* GFormService.batchUpdateForm called on its own with a request list *)
batchUpdateForm_call ==
  /\ pc = "idle"
  /\ caller' = "direct"
  /\ args' = NoArgs
  /\ form' = None
  /\ processedOps' = <<>>
  /\ opIndex' = 0
  /\ getFormCalls' = 0
  /\ batchUpdateCalls' = 1
  /\ \E reqs \in DirectRequests :
       /\ requests' = reqs
       /\ IF batchUpdateFormRejects(reqs)
          THEN /\ pc' = "done"
               /\ result' = Some(ErrorResult(None, "No requests to execute"))
               /\ remoteCalls' = 0
               /\ remoteRequests' = None
               /\ remoteResponse' = None
          ELSE /\ pc' = "submitting"
               /\ result' = None
               /\ remoteCalls' = 1
               /\ remoteRequests' = Some(reqs)
               /\ remoteResponse' = None
  /\ UNCHANGED remote

(* forms.batchUpdate answers the direct call (result.data or a rethrow) *)
batchUpdateForm_return ==
  /\ pc = "submitting"
  /\ caller = "direct"
  /\ pc' = "done"
  /\ \E response \in {RemoteData(f) : f \in ResponseForms} \cup
                     {RemoteError(message) : message \in RemoteMessages} :
       /\ remoteResponse' = Some(response)
       /\ result' = IF response.ok
                    THEN Some(SuccessResult(Len(requests), <<>>, response))
                    ELSE Some(RemoteFailureResult(response.message))
  /\ UNCHANGED <<caller, args, form, processedOps, opIndex, requests,
                 getFormCalls, batchUpdateCalls, remoteCalls, remoteRequests>>
  /\ UNCHANGED remote

(* ---- utils/api.ts GFormService.createItem ---- *)
(* `let itemIndex = 0; if (index === undefined) { const form = await
   this.getForm(formId); itemIndex = form.items ? form.items.length : 0; }` *)
createItemIndex(index, f) ==
  IF index = None
  THEN IF f.items # None THEN Len(f.items[1]) ELSE 0
  ELSE 0

(* `{ title, description, index: itemIndex, itemType: itemType.type }` for a
   text item (addTextItem passes { type: "text", data: {} }) *)
createItemParams(title, itemIndex) ==
  CreateItemCallParams(CreatePayload(title, Some(itemIndex), "text", None))

CreateItemInputs ==
  [title : {"", "T"},
   index : {None} \cup {Some(i) : i \in 0..MaxItems},
   form : Forms]

(* createItem from the call to its return: the snapshot is fetched only when
   no index was given, the request is built, and forms.batchUpdate is called
   once with the one request unless the builder returned an Error. The
   result is result.data, or the Error thrown by the catch. *)
createItem_call ==
  /\ pc = "idle"
  /\ \E p \in CreateItemInputs :
       LET request == buildCreateItemRequest(
                        createItemParams(p.title, createItemIndex(p.index, p.form)))
           failed == request.type = "Error"
       IN /\ pc' = "done"
          /\ caller' = "createItem"
          /\ args' = [params |-> p]
          /\ form' = IF p.index = None THEN Some(p.form) ELSE None
          /\ getFormCalls' = IF p.index = None THEN 1 ELSE 0
          /\ requests' = IF failed THEN <<>> ELSE <<request>>
          /\ remoteCalls' = IF failed THEN 0 ELSE 1
          /\ remoteRequests' = IF failed THEN None ELSE Some(<<request>>)
          /\ IF failed
             THEN /\ remoteResponse' = None
                  /\ result' = Some(Throw(request.message))
             ELSE \E response \in {RemoteData(None), RemoteError("Quota exceeded")} :
                    /\ remoteResponse' = Some(response)
                    /\ result' = IF response.ok THEN Some(response)
                                 ELSE Some(Throw(response.message))
          /\ UNCHANGED <<processedOps, opIndex, batchUpdateCalls>>
  /\ UNCHANGED remote

(* ---- the builders called on their own ---- *)
OptStrings == {None, Some(""), Some("T")}

InfoParams == [title : OptStrings, description : OptStrings]

SettingsParams ==
  [email_collection_type : {None, Some("VERIFIED")},
   is_quiz : {None, Some(TRUE), Some(FALSE)},
   release_grade : {None, Some("IMMEDIATELY")}]

(* A function of one argument is applied to p and returns out. *)
PureCall(name, p, out) ==
  /\ pc = "idle"
  /\ pc' = "done"
  /\ caller' = name
  /\ args' = [params |-> p]
  /\ result' = Some(out)
  /\ UNCHANGED <<form, processedOps, opIndex, requests, getFormCalls,
                 batchUpdateCalls, remoteCalls, remoteRequests, remoteResponse>>
  /\ UNCHANGED remote

buildUpdateFormInfoRequest_call ==
  /\ pc = "idle"
  /\ \E p \in InfoParams :
       PureCall("buildUpdateFormInfoRequest", p, buildUpdateFormInfoRequest(p))

buildUpdateFormSettingsRequest_call ==
  /\ pc = "idle"
  /\ \E p \in SettingsParams :
       PureCall("buildUpdateFormSettingsRequest", p, buildUpdateFormSettingsRequest(p))

(* Inputs of the create-item builders *)
ChoiceTypes == {"RADIO", "CHECKBOX", "DROP_DOWN"}
OptBools == {None, Some(TRUE), Some(FALSE)}
Rows == {[title |-> "R1", required |-> None], [title |-> "R2", required |-> Some(TRUE)]}
OptRowLists == {None} \cup {Some(r) : r \in SeqsUpTo(Rows, MaxRows)}
OptGridTypes == {None, Some("RADIO"), Some("CHECKBOX")}

(* request-builders.ts: options and columns are lists of strings *)
OptValueLists == {None} \cup {Some(o) : o \in SeqsUpTo({"a", "b"}, MaxOptions)}

CreateParams ==
  {[CreatePayload("Q", None, "question", qt) EXCEPT
      !.options = o, !.include_other = io]
     : qt \in {None, Some("TEXT")} \cup {Some(t) : t \in ChoiceTypes},
       o \in OptValueLists, io \in OptBools}
  \cup
  {[CreatePayload("G", Some(1), "questionGroup", None) EXCEPT
      !.rows = r, !.isGrid = g, !.columns = c, !.gridType = gt]
     : r \in OptRowLists, g \in OptBools, c \in OptValueLists, gt \in OptGridTypes}
  \cup
  {CreatePayload("", None, "text", None), CreatePayload("T", None, "text", None),
   CreatePayload("P", Some(0), "pageBreak", None),
   CreatePayload("X", None, "image", None)}

(* env.ts: options are FormOption objects (types/index.ts FormOptionSchema) *)
OptActions == {None, Some("NEXT_SECTION"), Some("SUBMIT_FORM")}
OptSections == {None, Some("sec1")}
FormOptions ==
  [value : {"a", "b"}, goToAction : OptActions, goToSectionId : OptSections]
OptFormOptionLists == {None} \cup {Some(o) : o \in SeqsUpTo(FormOptions, MaxOptions)}
OptColumnLists ==
  {None} \cup {Some(c) : c \in SeqsUpTo({[value |-> "a"], [value |-> "b"]}, MaxOptions)}

CreatePayload_v2(title, index, itemType, questionType) ==
  [title |-> title, description |-> None, index |-> index,
   item_type |-> itemType, question_type |-> questionType,
   options |-> None, required |-> None, include_other |-> None,
   grading |-> None, question_group_params |-> None]

GroupParams ==
  [rows : OptRowLists, is_grid : OptBools, columns : OptColumnLists,
   grid_type : OptGridTypes, shuffle_questions : {None, Some(TRUE)}]

CreateParams_v2 ==
  {[CreatePayload_v2("Q", None, "question", qt) EXCEPT
      !.options = o, !.include_other = io]
     : qt \in {None, Some("TEXT")} \cup {Some(t) : t \in ChoiceTypes},
       o \in OptFormOptionLists, io \in OptBools}
  \cup
  {[CreatePayload_v2("G", Some(1), "questionGroup", None) EXCEPT
      !.question_group_params = g]
     : g \in {None} \cup {Some(x) : x \in GroupParams}}
  \cup
  {CreatePayload_v2("", None, "text", None), CreatePayload_v2("T", None, "text", None),
   CreatePayload_v2("P", Some(0), "pageBreak", None),
   CreatePayload_v2("X", None, "image", None),
   [CreatePayload_v2("Q", None, "question", Some("TEXT")) EXCEPT
      !.grading = Some([pointValue |-> 1, correctAnswers |-> None])]}

buildCreateItemRequest_call ==
  /\ pc = "idle"
  /\ \E c \in CreateParams :
       PureCall("buildCreateItemRequest", CreateItemCallParams(c),
             buildCreateItemRequest(CreateItemCallParams(c)))

buildCreateItemRequest_v2_call ==
  /\ pc = "idle"
  /\ \E p \in CreateParams_v2 :
       PureCall("buildCreateItemRequest_v2", p, buildCreateItemRequest_v2(p))

UpdateParams ==
  [index : {0}, title : {None, Some("T")}, description : {None, Some("D")},
   required : OptBools]

CurrentItems == {None, Some(ItemAt(1)), Some(ItemAt(2))}

buildUpdateItemRequest_call ==
  /\ pc = "idle"
  /\ \E p \in UpdateParams, currentItem \in CurrentItems :
       /\ pc' = "done"
       /\ caller' = "buildUpdateItemRequest"
       /\ args' = [params |-> p, currentItem |-> currentItem]
       /\ result' = Some(buildUpdateItemRequest(p, currentItem))
       /\ UNCHANGED <<form, processedOps, opIndex, requests, getFormCalls,
                      batchUpdateCalls, remoteCalls, remoteRequests,
                      remoteResponse>>
  /\ UNCHANGED remote

(* Inputs of extractFormId: one string that `new URL` rejects, and the
   URLs of two hosts whose path has 1..MaxPathLen segments. *)
Segments == {"", "forms", "d", "e", "FORM_ID", "edit", "viewform"}

Urls_v2 ==
  {[parses |-> FALSE, hostname |-> "", parts |-> <<>>]} \cup
  {[parses |-> TRUE, hostname |-> h, parts |-> <<"">> \o segs]
     : h \in {"docs.google.com", "www.google.com"},
       segs \in SeqsUpTo(Segments, MaxPathLen) \ {<<>>}}

extractFormId_v2_call ==
  /\ pc = "idle"
  /\ \E url \in Urls_v2 :
       PureCall("extractFormId_v2", url, extractFormId_v2(url))

Next ==
  \/ execute_start
  \/ execute_getFormThrows
  \/ execute_formNotFound
  \/ execute_getFormReturns
  \/ execute_buildRequest
  \/ execute_operationFails
  \/ execute_noOperations
  \/ execute_submit
  \/ execute_batchUpdateReturns
  \/ execute_batchUpdateThrows
  \/ batchUpdateForm_call
  \/ batchUpdateForm_return
  \/ createItem_call
  \/ buildUpdateFormInfoRequest_call
  \/ buildUpdateFormSettingsRequest_call
  \/ buildCreateItemRequest_call
  \/ buildCreateItemRequest_v2_call
  \/ buildUpdateItemRequest_call
  \/ extractFormId_v2_call

Spec == Init /\ [][Next]_vars

(* ---- the remote document ---- *)
(* forms.batchUpdate applies the requests of one batch one after another to
   the item list. An entry of the list is an item of the snapshot (origin
   "snapshot", `at` its 1-based position there) or an item created by the
   batch (origin "created", with the item of its request). *)
SnapshotEntry(j) == [origin |-> "snapshot", at |-> j, item |-> None]
CreatedEntry(item) == [origin |-> "created", at |-> 0, item |-> Some(item)]

SnapshotDocument(f) ==
  IF f.items = None THEN <<>> ELSE [j \in 1..Len(f.items[1]) |-> SnapshotEntry(j)]

InsertAt(items, i, x) == SubSeq(items, 1, i) \o <<x>> \o SubSeq(items, i + 1, Len(items))
RemoveAt(items, i) == SubSeq(items, 1, i) \o SubSeq(items, i + 2, Len(items))

(* One request applied to the current list: whether its indexes are in
   range, the list afterwards, and the entry it acted on (if it has one). *)
applyRequest(items, req) ==
  LET InRange(i) == 0 <= i /\ i < Len(items) IN
  CASE req.type = "createItem" ->
         LET i == req.location.index IN
         IF 0 <= i /\ i <= Len(items)
         THEN [ok |-> TRUE, items |-> InsertAt(items, i, CreatedEntry(req.item)),
               target |-> None]
         ELSE [ok |-> FALSE, items |-> items, target |-> None]
    [] req.type = "deleteItem" ->
         LET i == req.location.index IN
         IF InRange(i)
         THEN [ok |-> TRUE, items |-> RemoveAt(items, i), target |-> Some(items[i + 1])]
         ELSE [ok |-> FALSE, items |-> items, target |-> None]
    [] req.type = "moveItem" ->
         LET i == req.originalLocation.index
             j == req.newLocation.index
         IN IF InRange(i) /\ InRange(j)
            THEN [ok |-> TRUE,
                  items |-> InsertAt(RemoveAt(items, i), j, items[i + 1]),
                  target |-> Some(items[i + 1])]
            ELSE [ok |-> FALSE, items |-> items, target |-> None]
    [] req.type = "updateItem" ->
         LET i == req.location.index IN
         IF InRange(i)
         THEN [ok |-> TRUE, items |-> items, target |-> Some(items[i + 1])]
         ELSE [ok |-> FALSE, items |-> items, target |-> None]
    [] OTHER -> [ok |-> TRUE, items |-> items, target |-> None]

(* The requests applied in order from `items`: ok is FALSE as soon as one
   request is out of range (the batch is then refused as a whole), steps
   holds the outcome of every request applied before that. *)
RECURSIVE applyRequests(_, _)
applyRequests(items, reqs) ==
  IF reqs = <<>>
  THEN [ok |-> TRUE, items |-> items, steps |-> <<>>]
  ELSE LET first == applyRequest(items, Head(reqs)) IN
       IF ~first.ok
       THEN [ok |-> FALSE, items |-> items, steps |-> <<first>>]
       ELSE LET rest == applyRequests(first.items, Tail(reqs)) IN
            [ok |-> rest.ok, items |-> rest.items, steps |-> <<first>> \o rest.steps]

(* ---- two invocations of execute against one document ---- *)
(* The variables are functions of the invocation; remote is shared. The code
   between two awaits of one invocation runs without interruption, so an
   invocation is suspended only at `await service.getForm` and at
   `await service.batchUpdateForm`. *)
Invocations == {"first", "second", "third"}

ConcurrentBatches ==
  {<<>>,
   <<TextCreate("A", Some(0))>>,
   <<Delete(0)>>,
   <<Delete(0), Delete(1)>>,
   <<Delete(0), TextCreate("A", Some(0))>>}

InitialDocuments == {SnapshotDocument(f) : f \in Forms}

(* What forms.get answers for the item list of the document *)
documentForm(items) == [items |-> Some(items)]

(* The loop `for (const [opIndex, op] of processedOps.entries())` run from
   position k with its own `requests`: the requests built, the position
   where it stopped, and the message of the thrown Error if it threw. *)
RECURSIVE buildRequests(_, _, _)
buildRequests(processed, f, k) ==
  IF k = Len(processed)
  THEN [failed |-> FALSE, at |-> k, cause |-> "", requests |-> <<>>]
  ELSE LET request == operationRequest(processed[k + 1], f) IN
       IF request.type \in {"Error", "Throw"}
       THEN [failed |-> TRUE, at |-> k, cause |-> request.message, requests |-> <<>>]
       ELSE LET rest == buildRequests(processed, f, k + 1) IN
            [rest EXCEPT !.requests = <<request>> \o @]

ConcurrentInit ==
  /\ pc = [p \in Invocations |-> "idle"]
  /\ caller = [p \in Invocations |-> "none"]
  /\ args = [p \in Invocations |-> NoArgs]
  /\ form = [p \in Invocations |-> None]
  /\ processedOps = [p \in Invocations |-> <<>>]
  /\ opIndex = [p \in Invocations |-> 0]
  /\ requests = [p \in Invocations |-> <<>>]
  /\ result = [p \in Invocations |-> None]
  /\ getFormCalls = [p \in Invocations |-> 0]
  /\ batchUpdateCalls = [p \in Invocations |-> 0]
  /\ remoteCalls = [p \in Invocations |-> 0]
  /\ remoteRequests = [p \in Invocations |-> None]
  /\ remoteResponse = [p \in Invocations |-> None]
  /\ \E d \in InitialDocuments : remote = [initial |-> d, items |-> d, log |-> <<>>]

(* execute, up to `await service.getForm(formId)` *)
invocation_start(p) ==
  /\ pc[p] = "idle"
  /\ \E ops \in ConcurrentBatches :
       args' = [args EXCEPT ![p] = [form_url |-> Some(GoodUrl), operations |-> ops]]
  /\ pc' = [pc EXCEPT ![p] = "fetching"]
  /\ caller' = [caller EXCEPT ![p] = "execute"]
  /\ getFormCalls' = [getFormCalls EXCEPT ![p] = @ + 1]
  /\ UNCHANGED <<form, processedOps, opIndex, requests, result, batchUpdateCalls,
                 remoteCalls, remoteRequests, remoteResponse, remote>>

(* getForm rejects: the catch of execute returns the error result *)
invocation_getFormThrows(p) ==
  /\ pc[p] = "fetching"
  /\ pc' = [pc EXCEPT ![p] = "done"]
  /\ result' = [result EXCEPT ![p] = Some(ErrorResult(None, "getForm failed"))]
  /\ UNCHANGED <<caller, args, form, processedOps, opIndex, requests, getFormCalls,
                 batchUpdateCalls, remoteCalls, remoteRequests, remoteResponse,
                 remote>>

(* Variant: `requests` is a field shared by the invocations instead of a
   local of execute, and the loop appends to what the others left there. *)
invocation_getFormReturns_sharedRequests(p) ==
  /\ pc[p] = "fetching"
  /\ LET f == documentForm(remote.items)
         processed == sortBatchOperations(args[p].operations)
         built == buildRequests(processed, f, 0)
         left == CHOOSE q \in Invocations : q # p /\ \A r \in Invocations : Len(requests[r]) <= Len(requests[q])
         all == requests[left] \o built.requests
     IN /\ form' = [form EXCEPT ![p] = Some(f)]
        /\ processedOps' = [processedOps EXCEPT ![p] = processed]
        /\ opIndex' = [opIndex EXCEPT ![p] = built.at]
        /\ requests' = [requests EXCEPT ![p] = all]
        /\ IF built.failed \/ all = <<>>
           THEN /\ pc' = [pc EXCEPT ![p] = "done"]
                /\ result' = [result EXCEPT ![p] =
                     IF built.failed
                     THEN Some(ErrorResult(Some(operationNumber(built.at)), built.cause))
                     ELSE Some(ErrorResult(None, "No operations to execute"))]
                /\ UNCHANGED <<batchUpdateCalls, remoteCalls, remoteRequests>>
           ELSE /\ pc' = [pc EXCEPT ![p] = "submitting"]
                /\ batchUpdateCalls' = [batchUpdateCalls EXCEPT ![p] = @ + 1]
                /\ remoteCalls' = [remoteCalls EXCEPT ![p] = @ + 1]
                /\ remoteRequests' = [remoteRequests EXCEPT ![p] = Some(all)]
                /\ UNCHANGED result
  /\ UNCHANGED <<caller, args, getFormCalls, remoteResponse, remote>>

(* getForm resolves with the document as it is now; execute sorts, runs the
   loop over every operation and, unless an operation threw or no request
   was built, calls service.batchUpdateForm: up to the second await. *)
invocation_getFormReturns(p) ==
  /\ pc[p] = "fetching"
  /\ LET f == documentForm(remote.items)
         processed == sortBatchOperations(args[p].operations)
         built == buildRequests(processed, f, 0)
     IN /\ form' = [form EXCEPT ![p] = Some(f)]
        /\ processedOps' = [processedOps EXCEPT ![p] = processed]
        /\ opIndex' = [opIndex EXCEPT ![p] = built.at]
        /\ requests' = [requests EXCEPT ![p] = built.requests]
        /\ IF built.failed \/ built.requests = <<>>
           THEN /\ pc' = [pc EXCEPT ![p] = "done"]
                /\ result' = [result EXCEPT ![p] =
                     IF built.failed
                     THEN Some(ErrorResult(Some(operationNumber(built.at)), built.cause))
                     ELSE Some(ErrorResult(None, "No operations to execute"))]
                /\ UNCHANGED <<batchUpdateCalls, remoteCalls, remoteRequests>>
           ELSE /\ pc' = [pc EXCEPT ![p] = "submitting"]
                /\ batchUpdateCalls' = [batchUpdateCalls EXCEPT ![p] = @ + 1]
                /\ remoteCalls' = [remoteCalls EXCEPT ![p] = @ + 1]
                /\ remoteRequests' = [remoteRequests EXCEPT ![p] = Some(built.requests)]
                /\ UNCHANGED result
  /\ UNCHANGED <<caller, args, getFormCalls, remoteResponse, remote>>

(* Variant: the remote refuses a batch whose sender holds a snapshot that is
   no longer the current item list. *)
remote_batchUpdate_versionChecked(p) ==
  /\ pc[p] = "submitting"
  /\ remoteResponse[p] = None
  /\ LET applied == applyRequests(remote.items, remoteRequests[p][1])
         accepted == applied.ok /\ form[p] = Some(documentForm(remote.items))
     IN /\ remote' = [remote EXCEPT
                        !.items = IF accepted THEN applied.items ELSE @,
                        !.log = Append(@, remoteRequests[p][1])]
        /\ remoteResponse' = [remoteResponse EXCEPT ![p] =
             IF accepted
             THEN Some(RemoteData(Some(documentForm(applied.items))))
             ELSE Some(RemoteError("Invalid requests[0]"))]
  /\ UNCHANGED <<pc, caller, args, form, processedOps, opIndex, requests, result,
                 getFormCalls, batchUpdateCalls, remoteCalls, remoteRequests>>

(* The batch of p reaches the remote: its requests are applied one after
   another to the current item list, or the batch is refused as a whole when
   a request is out of range. The request body carries no revision. *)
remote_batchUpdate(p) ==
  /\ pc[p] = "submitting"
  /\ remoteResponse[p] = None
  /\ LET applied == applyRequests(remote.items, remoteRequests[p][1]) IN
       /\ remote' = [remote EXCEPT
                       !.items = IF applied.ok THEN applied.items ELSE @,
                       !.log = Append(@, remoteRequests[p][1])]
       /\ remoteResponse' = [remoteResponse EXCEPT ![p] =
            IF applied.ok
            THEN Some(RemoteData(Some(documentForm(applied.items))))
            ELSE Some(RemoteError("Invalid requests[0]"))]
  /\ UNCHANGED <<pc, caller, args, form, processedOps, opIndex, requests, result,
                 getFormCalls, batchUpdateCalls, remoteCalls, remoteRequests>>

(* `await service.batchUpdateForm` settles: the result text, or the catch *)
invocation_batchUpdateSettles(p) ==
  /\ pc[p] = "submitting"
  /\ remoteResponse[p] # None
  /\ pc' = [pc EXCEPT ![p] = "done"]
  /\ result' = [result EXCEPT ![p] =
       IF remoteResponse[p][1].ok
       THEN Some(SuccessResult(Len(requests[p]), args[p].operations,
                               remoteResponse[p][1]))
       ELSE Some(RemoteFailureResult(remoteResponse[p][1].message))]
  /\ UNCHANGED <<caller, args, form, processedOps, opIndex, requests, getFormCalls,
                 batchUpdateCalls, remoteCalls, remoteRequests, remoteResponse,
                 remote>>

(* The batches of the log applied in the order of their arrival; a batch
   with a request out of range is refused and leaves the list as it was. *)
RECURSIVE applyLog(_, _)
applyLog(items, log) ==
  IF log = <<>>
  THEN items
  ELSE LET applied == applyRequests(items, Head(log)) IN
       applyLog(IF applied.ok THEN applied.items ELSE items, Tail(log))

ConcurrentNext ==
  \/ \E p \in Invocations : invocation_start(p)
  \/ \E p \in Invocations : invocation_getFormThrows(p)
  \/ \E p \in Invocations : invocation_getFormReturns(p)
  \/ \E p \in Invocations : remote_batchUpdate(p)
  \/ \E p \in Invocations : invocation_batchUpdateSettles(p)

ConcurrentSpec == ConcurrentInit /\ [][ConcurrentNext]_vars

(* Every await of execute is settled: forms.get and forms.batchUpdate answer
   or reject, and the code between two awaits runs to its end. *)
ExecuteNext ==
  \/ execute_getFormThrows
  \/ execute_formNotFound
  \/ execute_getFormReturns
  \/ execute_buildRequest
  \/ execute_operationFails
  \/ execute_noOperations
  \/ execute_submit
  \/ execute_batchUpdateReturns
  \/ execute_batchUpdateThrows

(* The calls of execute whose termination is checked: every operation of
   OpInputs on its own, and the longer batches of SortInputs. *)
LiveBatches == {<<op>> : op \in OpInputs} \cup SeqsUpTo(SortInputs, MaxSortOps)

execute_start_live ==
  /\ pc = "idle"
  /\ \E url \in Urls, ops \in LiveBatches : execute_called(url, ops)

LiveNext == execute_start_live \/ ExecuteNext

LiveSpec == Init /\ [][LiveNext]_vars /\ WF_vars(ExecuteNext)

(* ======================= properties ======================= *)
(* Item count N of the snapshot: 0 when it has no items list *)
SnapshotCount == IF form[1].items = None THEN 0 ELSE Len(form[1].items[1])

Fetched == caller = "execute" /\ form # None

FailsValidation(op) == operationRequest(op, form[1]).type \in {"Error", "Throw"}

SomeOperationInvalid ==
  \E k \in 1..Len(args.operations) : FailsValidation(args.operations[k])

(* C1: when some operation of the batch fails validation against the
   snapshot, batchUpdateForm is never entered, nothing reaches the remote
   batchUpdate, and the invocation ends with isError = true. *)
C1_NoSubmissionOnInvalid ==
  (Fetched /\ SomeOperationInvalid) =>
    /\ batchUpdateCalls = 0
    /\ remoteCalls = 0
    /\ remoteRequests = None
    /\ pc \in {"validating", "done"}
    /\ (pc = "done" => result # None /\ result[1].isError)

(* A batch failed after at least one wire request had been built. *)
C1_Witness ==
  /\ Fetched /\ SomeOperationInvalid
  /\ pc = "done"
  /\ Len(requests) > 0
  /\ result[1].isError
  /\ batchUpdateCalls = 0

(* The operations paired with their 1-based position in the caller's list *)
Tagged(operations) ==
  [i \in 1..Len(operations) |-> [operation |-> operations[i].operation, pos |-> i]]

(* Original position of the operation processed k-th *)
OriginalPosition(k) == sortBatchOperations(Tagged(args.operations))[k].pos

ValidationFailed ==
  Fetched /\ pc = "done" /\ result[1].isError /\ result[1].opNumber # None

(* C2: the operation number of a validation error is the 1-based position
   of the failing operation in the caller's original operation list. *)
C2_ErrorNamesOriginalPosition ==
  ValidationFailed => result[1].opNumber[1] = OriginalPosition(opIndex + 1)

(* The order the claim describes, computed by one left-to-right pass:
   a creation goes to the front, any other operation to the back. *)
RECURSIVE ClaimedOrder(_)
ClaimedOrder(ops) ==
  IF ops = <<>> THEN <<>>
  ELSE LET init == SubSeq(ops, 1, Len(ops) - 1)
           last == ops[Len(ops)]
       IN IF last.operation = "create_item"
          THEN <<last>> \o ClaimedOrder(init)
          ELSE ClaimedOrder(init) \o <<last>>

Occurrences(s, x) == Cardinality({i \in 1..Len(s) : s[i] = x})

(* C3: processedOps is the creations in reverse original order followed by
   the other operations in original order, and a permutation of the input. *)
C3_ProcessingOrder ==
  Fetched =>
    /\ processedOps = ClaimedOrder(args.operations)
    /\ Len(processedOps) = Len(args.operations)
    /\ \A i \in 1..Len(args.operations) :
         Occurrences(processedOps, args.operations[i]) =
           Occurrences(args.operations, args.operations[i])

(* [create A, delete@0, create B, create C] is processed as
   [create C, create B, create A, delete@0]. *)
C3_Witness ==
  /\ Fetched
  /\ args.operations =
       <<TextCreate("A", None), Delete(0), TextCreate("B", None), TextCreate("C", None)>>
  /\ processedOps =
       <<TextCreate("C", None), TextCreate("B", None), TextCreate("A", None), Delete(0)>>

Submitted == caller = "execute" /\ remoteRequests # None

InRange(i, lo, hi) == lo <= i /\ i <= hi

(* C4: in a submitted batch every index that references an existing item
   (updateItem, deleteItem, moveItem source) satisfies 0 <= index < N. *)
C4_ExistingItemIndexInRange ==
  Submitted =>
    \A k \in 1..Len(remoteRequests[1]) :
      LET r == remoteRequests[1][k] IN
        /\ r.type = "deleteItem" => InRange(r.location.index, 0, SnapshotCount - 1)
        /\ r.type = "moveItem" => InRange(r.originalLocation.index, 0, SnapshotCount - 1)
        /\ r.type = "updateItem" =>
             r.location.index # None /\
             InRange(r.location.index[1], 0, SnapshotCount - 1)

(* A submitted batch holding a deleteItem of the last item and a moveItem. *)
C4_Witness ==
  /\ Submitted
  /\ \E k \in 1..Len(remoteRequests[1]) :
       remoteRequests[1][k].type = "deleteItem" /\
       remoteRequests[1][k].location.index = SnapshotCount - 1
  /\ \E k \in 1..Len(remoteRequests[1]) : remoteRequests[1][k].type = "moveItem"

(* C5: in a submitted batch every insertion position (createItem location,
   moveItem destination) satisfies 0 <= index <= N. *)
C5_InsertionIndexInRange ==
  Submitted =>
    \A k \in 1..Len(remoteRequests[1]) :
      LET r == remoteRequests[1][k] IN
        /\ r.type = "createItem" => InRange(r.location.index, 0, SnapshotCount)
        /\ r.type = "moveItem" => InRange(r.newLocation.index, 0, SnapshotCount)

(* C6: a create_item whose index is omitted gets the snapshot's item count
   as the location index of its createItem request. *)
C6_OmittedIndexAppends ==
  Fetched =>
    \A k \in 1..Len(requests) :
      (processedOps[k].operation = "create_item" /\
       processedOps[k].createItemRequest[1].index = None)
        => requests[k].location.index = SnapshotCount

(* Validity of an operation against a snapshot of n items, as the
   operation table and the data-model invariants state it. *)
ValidCreate(c, n) ==
  /\ c.title # ""
  /\ c.index # None => InRange(c.index[1], 0, n)
  /\ c.item_type = "question" =>
       /\ c.question_type # None
       /\ c.question_type[1] \in {"RADIO", "CHECKBOX", "DROP_DOWN"} =>
            ~MissingOrEmpty(c.options)
  /\ c.item_type = "questionGroup" => ~MissingOrEmpty(c.rows)

ValidOperation(op, n) ==
  CASE op.operation = "create_item" ->
         op.createItemRequest # None /\ ValidCreate(op.createItemRequest[1], n)
    [] op.operation = "update_item" ->
         /\ op.updateItemRequest # None
         /\ InRange(op.updateItemRequest[1].index, 0, n - 1)
         /\ op.updateItemRequest[1].item # None
         /\ op.updateItemRequest[1].update_mask # ""
    [] op.operation = "delete_item" ->
         op.deleteItemRequest # None /\
         InRange(op.deleteItemRequest[1].index, 0, n - 1)
    [] op.operation = "move_item" ->
         /\ op.moveItemRequest # None
         /\ InRange(op.moveItemRequest[1].index, 0, n - 1)
         /\ InRange(op.moveItemRequest[1].new_index, 0, n)
    [] op.operation = "update_form_info" ->
         /\ op.updateFormInfoRequest # None
         /\ \/ op.updateFormInfoRequest[1].title # None
            \/ op.updateFormInfoRequest[1].description # None
    [] op.operation = "update_form_settings" ->
         /\ op.updateFormSettingsRequest # None
         /\ \/ op.updateFormSettingsRequest[1].email_collection_type # None
            \/ op.updateFormSettingsRequest[1].is_quiz # None
    [] OTHER -> FALSE

AllOperationsValid ==
  /\ Len(args.operations) > 0
  /\ \A k \in 1..Len(args.operations) : ValidOperation(args.operations[k], SnapshotCount)

(* C7: a non-empty batch of valid operations passes validation, yields as
   many wire requests as operations, and reports that count. *)
C7_ValidBatchAccepted ==
  (Fetched /\ AllOperationsValid /\ pc = "done") =>
    /\ remoteRequests # None
    /\ Len(remoteRequests[1]) = Len(args.operations)
    /\ ~result[1].isError => result[1].count = Len(args.operations)

WireTypeOf(kind) ==
  CASE kind = "create_item" -> "createItem"
    [] kind = "update_item" -> "updateItem"
    [] kind = "delete_item" -> "deleteItem"
    [] kind = "move_item" -> "moveItem"
    [] kind = "update_form_info" -> "updateFormInfo"
    [] kind = "update_form_settings" -> "updateSettings"
    [] OTHER -> "none"

(* C8: every supported kind is dispatched to its own builder: a built
   request has the wire type of its operation's kind, and no supported kind
   is rejected as an unknown operation type. *)
C8_DispatchByKind ==
  Fetched =>
    /\ \A k \in 1..Len(requests) :
         requests[k].type = WireTypeOf(processedOps[k].operation)
    /\ (ValidationFailed /\
        processedOps[opIndex + 1].operation \in SUPPORTED_OPERATIONS)
         => result[1].cause # "Unknown operation type"

(* C9: an empty operation list ends in the 'no operations to execute'
   error without entering batchUpdateForm; batchUpdateForm given an empty
   request list fails without calling the remote batchUpdate. *)
C9_EmptyBatchRejected ==
  /\ (Fetched /\ Len(args.operations) = 0) =>
       /\ batchUpdateCalls = 0 /\ remoteCalls = 0
       /\ pc \in {"validating", "done"}
       /\ pc = "done" =>
            result[1].isError /\ result[1].cause = "No operations to execute"
  /\ (caller = "direct" /\ Len(requests) = 0) =>
       /\ pc = "done" /\ result[1].isError
       /\ remoteCalls = 0 /\ remoteRequests = None

(* An invocation with an empty operation list has finished. *)
C9_Witness ==
  /\ Fetched /\ Len(args.operations) = 0
  /\ pc = "done"
  /\ result[1].cause = "No operations to execute"

MoveDeleteOnly ==
  \A k \in 1..Len(args.operations) :
    LET op == args.operations[k] IN
      \/ /\ op.operation = "delete_item" /\ op.deleteItemRequest # None
         /\ InRange(op.deleteItemRequest[1].index, 0, SnapshotCount - 1)
      \/ /\ op.operation = "move_item" /\ op.moveItemRequest # None
         /\ InRange(op.moveItemRequest[1].index, 0, SnapshotCount - 1)
         /\ InRange(op.moveItemRequest[1].new_index, 0, SnapshotCount)

ExpectedMoveDelete(op) ==
  IF op.operation = "delete_item"
  THEN [type |-> "deleteItem", location |-> [index |-> op.deleteItemRequest[1].index]]
  ELSE [type |-> "moveItem",
        originalLocation |-> [index |-> op.moveItemRequest[1].index],
        newLocation |-> [index |-> op.moveItemRequest[1].new_index]]

(* C10: moves and deletes whose indices lie within the fetched snapshot are
   all accepted, whatever the other operations of the batch do, and yield
   one request each, in the caller's order, carrying the caller's indices;
   for 3 items, [move(0 -> 2), delete(2)] gives moveItem(0 -> 2), deleteItem(2). *)
C10_SnapshotBoundsOnly ==
  (Fetched /\ MoveDeleteOnly) =>
    /\ ~ValidationFailed
    /\ \A k \in 1..Len(requests) : requests[k] = ExpectedMoveDelete(args.operations[k])
    /\ (pc = "done" /\ Len(args.operations) > 0) =>
         remoteRequests = Some(MapSeq(ExpectedMoveDelete, args.operations))

C10_Witness ==
  /\ Fetched /\ SnapshotCount = 3
  /\ args.operations = <<Move(0, 2), Delete(2)>>
  /\ pc = "done"
  /\ remoteRequests =
       Some(<<[type |-> "moveItem", originalLocation |-> [index |-> 0],
               newLocation |-> [index |-> 2]],
              [type |-> "deleteItem", location |-> [index |-> 2]]>>)

Called(name) == caller = name /\ pc = "done"

IsEmptyInfoOp(op) ==
  /\ op.operation = "update_form_info" /\ op.updateFormInfoRequest # None
  /\ op.updateFormInfoRequest[1].title = None
  /\ op.updateFormInfoRequest[1].description = None

IsEmptySettingsOp(op) ==
  /\ op.operation = "update_form_settings" /\ op.updateFormSettingsRequest # None
  /\ op.updateFormSettingsRequest[1].email_collection_type = None
  /\ op.updateFormSettingsRequest[1].is_quiz = None

(* C11: buildUpdateFormInfoRequest without title and description, and
   buildUpdateFormSettingsRequest without any of its fields, return an Error
   value; a batch holding such an operation fails and is not submitted. *)
C11_NothingToUpdate ==
  /\ (Called("buildUpdateFormInfoRequest") /\
      args.params.title = None /\ args.params.description = None)
       => result[1].type = "Error"
  /\ (Called("buildUpdateFormSettingsRequest") /\
      args.params.email_collection_type = None /\ args.params.is_quiz = None /\
      args.params.release_grade = None)
       => result[1].type = "Error"
  /\ (Fetched /\ \E k \in 1..Len(args.operations) :
                   IsEmptyInfoOp(args.operations[k]) \/
                   IsEmptySettingsOp(args.operations[k]))
       => /\ remoteCalls = 0 /\ batchUpdateCalls = 0
          /\ pc = "done" => result[1].isError

(* A batch was abandoned at an update_form_info without fields, after a
   request had been built. *)
C11_Witness ==
  /\ ValidationFailed
  /\ IsEmptyInfoOp(processedOps[opIndex + 1])
  /\ result[1].cause = "no form information specified to update"
  /\ Len(requests) > 0 /\ remoteCalls = 0

ExpectedSettingsMask(p) ==
  (IF p.email_collection_type # None THEN <<"emailCollectionType">> ELSE <<>>) \o
  (IF p.is_quiz # None THEN <<"quizSettings.isQuiz">> ELSE <<>>) \o
  (IF p.release_grade # None THEN <<"quizSettings.releaseGrade">> ELSE <<>>)

(* C12: update_form_settings accepts every non-empty subset of
   email_collection_type, is_quiz and release_grade; the updateSettings mask
   names the supplied fields in that order and the payload holds exactly
   those fields. *)
C12_SettingsMaskFromSuppliedFields ==
  (Called("buildUpdateFormSettingsRequest") /\
   ExpectedSettingsMask(args.params) # <<>>)
    => /\ result[1].type = "updateSettings"
       /\ result[1].updateMask = ExpectedSettingsMask(args.params)
       /\ result[1].settings.emailCollectionType = args.params.email_collection_type
       /\ (result[1].settings.quizSettings = None)
            <=> (args.params.is_quiz = None /\ args.params.release_grade = None)
       /\ result[1].settings.quizSettings # None
            => /\ result[1].settings.quizSettings[1].isQuiz = args.params.is_quiz
               /\ result[1].settings.quizSettings[1].releaseGrade =
                    args.params.release_grade

(* The wire options of a built choice question *)
WireOptions == result[1].item.body.choiceQuestion.options

WantsOther(includeOther, questionType) ==
  Truthy(includeOther) /\ questionType[1] \in {"RADIO", "CHECKBOX"}

(* values: the values of the input options, in input order *)
ChoiceOptionsAsClaimed(values, other, questionType) ==
  /\ result[1].type = "createItem"
  /\ result[1].item.body.kind = "questionItem"
  /\ result[1].item.body.choiceQuestion.type = questionType[1]
  /\ Len(WireOptions) = Len(values) + (IF other THEN 1 ELSE 0)
  /\ \A i \in 1..Len(values) :
       /\ "value" \in DOMAIN WireOptions[i]
       /\ WireOptions[i].value = values[i]
  /\ other => WireOptions[Len(values) + 1] = [isOther |-> TRUE]

IsChoiceCall(name) ==
  /\ Called(name)
  /\ IF name = "buildCreateItemRequest"
     THEN args.params.itemType = "question" /\ args.params.questionType # None /\
          args.params.questionType[1] \in ChoiceTypes
     ELSE args.params.item_type = "question" /\ args.params.question_type # None /\
          args.params.question_type[1] \in ChoiceTypes

(* C13: for a RADIO, CHECKBOX or DROP_DOWN question buildCreateItemRequest
   returns an Error when options is missing or empty; otherwise the wire
   options are the input values in input order, followed by one isOther
   option exactly when include_other is set and the type is RADIO or
   CHECKBOX. *)
C13_ChoiceOptions ==
  /\ IsChoiceCall("buildCreateItemRequest") =>
       IF MissingOrEmpty(args.params.options)
       THEN result[1].type = "Error"
       ELSE ChoiceOptionsAsClaimed(
              args.params.options[1],
              WantsOther(args.params.includeOther, args.params.questionType),
              args.params.questionType)
  /\ IsChoiceCall("buildCreateItemRequest_v2") =>
       IF MissingOrEmpty(args.params.options)
       THEN result[1].type = "Error"
       ELSE ChoiceOptionsAsClaimed(
              [i \in 1..Len(args.params.options[1]) |-> args.params.options[1][i].value],
              WantsOther(args.params.include_other, args.params.question_type),
              args.params.question_type)

(* A CHECKBOX question with two options and include_other was built: three
   wire options, the last one isOther. *)
C13_Witness ==
  /\ IsChoiceCall("buildCreateItemRequest_v2")
  /\ args.params.question_type = Some("CHECKBOX")
  /\ args.params.include_other = Some(TRUE)
  /\ args.params.options # None /\ Len(args.params.options[1]) = 2
  /\ args.params.options[1][1].value = "b" /\ args.params.options[1][2].value = "a"
  /\ result[1].type = "createItem"
  /\ Len(WireOptions) = 3 /\ WireOptions[1].value = "b" /\ WireOptions[3] = OtherOption

GroupBody == result[1].item.body

(* rows, isGrid, gridType as given; columnValues: the optional list of the
   column values in input order *)
GroupAsClaimed(rows, isGrid, columnValues, gridType) ==
  IF MissingOrEmpty(rows)
  THEN result[1].type = "Error"
  ELSE IF Truthy(isGrid) /\ (MissingOrEmpty(columnValues) \/ gridType = None)
  THEN result[1].type = "Error"
  ELSE /\ result[1].type = "createItem"
       /\ GroupBody.kind = "questionGroupItem"
       /\ Len(GroupBody.questions) = Len(rows[1])
       /\ \A i \in 1..Len(rows[1]) :
            GroupBody.questions[i].rowQuestion.title = rows[1][i].title
       /\ Truthy(isGrid) =>
            /\ GroupBody.grid # None
            /\ GroupBody.grid[1].columns.type = gridType[1]
            /\ Len(GroupBody.grid[1].columns.options) = Len(columnValues[1])
            /\ \A i \in 1..Len(columnValues[1]) :
                 GroupBody.grid[1].columns.options[i] = [value |-> columnValues[1][i]]

ValuesOf(cols) ==
  IF cols = None THEN None
  ELSE Some([i \in 1..Len(cols[1]) |-> cols[1][i].value])

(* C14: for a questionGroup item, missing or empty rows is an Error; with
   is_grid set, missing or empty columns or a missing grid_type is an Error,
   and with both the item carries a grid of that selection type whose columns
   are the input columns in order; there is one row question per input row. *)
C14_QuestionGroup ==
  /\ (Called("buildCreateItemRequest") /\ args.params.itemType = "questionGroup")
       => GroupAsClaimed(args.params.rows, args.params.isGrid,
                         args.params.columns, args.params.gridType)
  /\ (Called("buildCreateItemRequest_v2") /\ args.params.item_type = "questionGroup")
       => IF args.params.question_group_params = None
          THEN result[1].type = "Error"
          ELSE GroupAsClaimed(args.params.question_group_params[1].rows,
                              args.params.question_group_params[1].is_grid,
                              ValuesOf(args.params.question_group_params[1].columns),
                              args.params.question_group_params[1].grid_type)

(* A grid with two rows and two columns was built. *)
C14_Witness ==
  /\ Called("buildCreateItemRequest_v2")
  /\ args.params.item_type = "questionGroup"
  /\ args.params.question_group_params # None
  /\ args.params.question_group_params[1].is_grid = Some(TRUE)
  /\ args.params.question_group_params[1].grid_type = Some("CHECKBOX")
  /\ args.params.question_group_params[1].rows # None
  /\ args.params.question_group_params[1].columns = Some(<<[value |-> "b"], [value |-> "a"]>>)
  /\ result[1].type = "createItem"
  /\ Len(GroupBody.questions) = 2
  /\ GroupBody.grid # None
  /\ GroupBody.grid[1].columns.options = <<[value |-> "b"], [value |-> "a"]>>

PartialGrid(isGrid, columns, gridType) ==
  /\ isGrid # None \/ columns # None \/ gridType # None
  /\ columns = None \/ gridType = None

(* C15: a questionGroup payload with a partial grid configuration (some of
   is_grid, columns, grid_type present, but not both columns and grid_type)
   makes the builder return an Error; no plain group is built from it. *)
C15_PartialGridRejected ==
  /\ (Called("buildCreateItemRequest") /\ args.params.itemType = "questionGroup" /\
      PartialGrid(args.params.isGrid, args.params.columns, args.params.gridType))
       => result[1].type = "Error"
  /\ (Called("buildCreateItemRequest_v2") /\ args.params.item_type = "questionGroup" /\
      args.params.question_group_params # None /\
      PartialGrid(args.params.question_group_params[1].is_grid,
                  args.params.question_group_params[1].columns,
                  args.params.question_group_params[1].grid_type))
       => result[1].type = "Error"

CarriesBoth(opt) == TruthyStr(opt.goToAction) /\ TruthyStr(opt.goToSectionId)

(* C16: a choice question one of whose options carries both goToAction and
   goToSectionId is rejected with an Error. *)
C16_BothBranchingFieldsRejected ==
  (IsChoiceCall("buildCreateItemRequest_v2") /\ args.params.options # None /\
   \E i \in 1..Len(args.params.options[1]) : CarriesBoth(args.params.options[1][i]))
    => result[1].type = "Error"

RequiredMaskPart == "questionItem.question.required"

(* An update_item operation that names the required flag and targets an item
   of the snapshot that is not a question item *)
UpdatesRequiredOfNonQuestion(op) ==
  /\ op.operation = "update_item" /\ op.updateItemRequest # None
  /\ op.updateItemRequest[1].update_mask = RequiredMaskPart
  /\ ~IndexOutOfRange(op.updateItemRequest[1].index, form[1])
  /\ form[1].items[1][op.updateItemRequest[1].index + 1].kind # "questionItem"

(* C17: an update of a field that cannot be set on the kind of the current
   item (the required flag of an item that is not a question item) is
   rejected: buildUpdateItemRequest returns an Error, and a batch holding
   such an update_item ends in an error result without being submitted. *)
C17_UnsettableFieldRejected ==
  /\ (Called("buildUpdateItemRequest") /\ args.params.required # None /\
      (args.currentItem = None \/ args.currentItem[1].kind # "questionItem"))
       => result[1].type = "Error"
  /\ (Fetched /\ \E k \in 1..Len(args.operations) :
                   UpdatesRequiredOfNonQuestion(args.operations[k]))
       => /\ remoteCalls = 0 /\ batchUpdateCalls = 0
          /\ pc = "done" => result[1].isError

(* The builder was asked to set required on a text item and returned the
   error about question items. *)
C17_Witness ==
  /\ Called("buildUpdateItemRequest")
  /\ args.params.required = Some(TRUE) /\ args.params.title = Some("T")
  /\ args.currentItem = Some(ItemAt(2))
  /\ result[1] = Err("required can only be set on question items")

(* A batch with such an update was abandoned at that operation. *)
C17_BatchAbandoned ==
  /\ ValidationFailed
  /\ UpdatesRequiredOfNonQuestion(processedOps[opIndex + 1])
  /\ remoteCalls = 0

(* The invocation of execute ended after forms.batchUpdate failed. *)
RemoteFailed ==
  caller = "execute" /\ pc = "done" /\ remoteResponse # None /\ ~remoteResponse[1].ok

(* C18: when every operation was validated and forms.batchUpdate fails, the
   result is an error whose text ends with the message of the remote error,
   unchanged, and the batch was submitted exactly once. *)
C18_RemoteFailureSurfacedOnce ==
  /\ RemoteFailed
       => /\ result[1].isError
          /\ result[1].detail = Some(remoteResponse[1].message)
          /\ batchUpdateCalls = 1 /\ remoteCalls = 1
          /\ remoteRequests = Some(requests)
  /\ caller = "execute" => remoteCalls <= 1

(* A batch of two validated requests was refused by the remote side. *)
C18_Witness ==
  /\ RemoteFailed
  /\ Len(requests) = 2 /\ Len(args.operations) = 2
  /\ remoteResponse[1].message = "Quota exceeded"
  /\ result[1].detail = Some("Quota exceeded")

Succeeded == caller = "execute" /\ pc = "done" /\ ~result[1].isError

(* The success result lists args.operations in the caller's order. *)
ListsCallerOrder ==
  Succeeded
    => /\ Len(result[1].operations) = Len(args.operations)
       /\ \A i \in 1..Len(args.operations) :
            /\ result[1].operations[i].number = i
            /\ result[1].operations[i].description = formatOperation(args.operations[i])
       /\ result[1].itemCount = responseItemCount(remoteResponse[1])
       /\ remoteResponse[1].ok

(* From the call to the return of execute the argument is not modified. *)
ArgsKept == pc # "idle" => args' = args

(* C19: on success the result holds one description per requested operation,
   in the caller's order and numbered 1..n, and the item count of the form
   returned by forms.batchUpdate; sorting does not change the caller's
   list. *)
C19_ResultListsCallerOrder == [] ListsCallerOrder /\ [][ArgsKept]_vars

(* Two creations were processed in reverse order and are listed in the
   caller's order, with the item count of the returned form. *)
C19_Witness ==
  /\ Succeeded
  /\ Len(args.operations) = 2
  /\ args.operations[1] = TextCreate("A", None)
  /\ args.operations[2] = TextCreate("B", Some(0))
  /\ processedOps[1] = args.operations[2]
  /\ result[1].operations[1].description.title = "A"
  /\ result[1].operations[2].description.title = "B"
  /\ result[1].itemCount = 2

(* The id segment of a path under /forms/d/: the segment after "e" when the
   segment after "d" is "e", else the segment after "d"; "" when missing. *)
IdSegment(parts) ==
  IF parts[4] = "e"
  THEN IF Len(parts) >= 5 THEN parts[5] ELSE ""
  ELSE parts[4]

IsFormsUrl(url) ==
  url.parses /\ url.hostname = "docs.google.com" /\ UnderFormsD(url.parts)

(* The outcome claimed for a URL whose ids in Reserved count as missing *)
ExtractsAsClaimed(url, Reserved) ==
  /\ result[1].threw
       <=> ~(IsFormsUrl(url) /\ IdSegment(url.parts) \notin ({""} \cup Reserved))
  /\ ~result[1].threw => result[1].formId = IdSegment(url.parts)
  /\ result[1].threw =>
       /\ result[1].prefix = "Error parsing form URL: "
       /\ result[1].cause =
            IF ~url.parses THEN "Invalid URL"
            ELSE IF ~IsFormsUrl(url) THEN "Invalid Google Forms URL"
            ELSE "Form ID not found in URL path"

(* C20 as stated: extractFormId returns the id segment exactly when the URL
   parses, the host is docs.google.com and the path is /forms/d/e/{id}/... or
   /forms/d/{id}/... with a non-empty id; otherwise it throws 'Invalid URL',
   'Invalid Google Forms URL' or 'Form ID not found in URL path'. *)
C20_Original_ExtractFormId ==
  Called("extractFormId_v2") => ExtractsAsClaimed(args.params, {})

(* C20 amended: as above, but an id segment equal to 'edit' or 'viewform' is
   treated as a missing id and throws 'Form ID not found in URL path'. *)
C20_ExtractFormId ==
  Called("extractFormId_v2") => ExtractsAsClaimed(args.params, {"edit", "viewform"})

(* https://docs.google.com/forms/d/edit was refused: the id is missing. *)
C20_Witness ==
  /\ Called("extractFormId_v2")
  /\ args.params.parses /\ args.params.hostname = "docs.google.com"
  /\ args.params.parts = <<"", "forms", "d", "edit">>
  /\ result[1].threw /\ result[1].cause = "Form ID not found in URL path"

(* https://docs.google.com/forms/d/e/FORM_ID gave FORM_ID. *)
C20_Extracted ==
  /\ Called("extractFormId_v2")
  /\ args.params.hostname = "docs.google.com"
  /\ args.params.parts = <<"", "forms", "d", "e", "FORM_ID">>
  /\ ~result[1].threw /\ result[1].formId = "FORM_ID"

(* The phases of one invocation, by what has happened so far *)
PhaseOrder ==
  caller = "execute" =>
    /\ getFormCalls <= 1 /\ batchUpdateCalls <= 1 /\ remoteCalls <= 1
    /\ pc \in {"validating", "submitting"} => getFormCalls = 1 /\ form # None
    /\ form = None => opIndex = 0 /\ requests = <<>> /\ batchUpdateCalls = 0
    /\ form # None => getFormCalls = 1 /\ processedOps = sortBatchOperations(args.operations)
    /\ batchUpdateCalls = 1 =>
         /\ opIndex = Len(processedOps)
         /\ Len(requests) = Len(processedOps)
    /\ remoteCalls <= batchUpdateCalls

(* The steps of one invocation only go forward through the phases. *)
PhaseStep ==
  (caller = "execute" /\ caller' = "execute") =>
    \/ pc = pc' /\ pc = "validating"
    \/ <<pc, pc'>> \in {<<"fetching", "validating">>, <<"fetching", "done">>,
                        <<"validating", "submitting">>, <<"validating", "done">>,
                        <<"submitting", "done">>}
    \/ UNCHANGED vars

(* C21: an invocation goes fetching -> (reordering) validating -> submitting
   -> done or failed; the snapshot is fetched once and before any operation
   is validated, forms.batchUpdate is reached at most once and only after
   every operation was validated, and after a failed fetch nothing is
   validated or submitted. *)
C21_PhaseOrder == [] PhaseOrder /\ [][PhaseStep]_vars

(* An invocation fetched once, validated its two operations and submitted
   them once. *)
C21_Witness ==
  /\ caller = "execute" /\ pc = "done" /\ ~result[1].isError
  /\ Len(args.operations) = 2 /\ opIndex = 2
  /\ getFormCalls = 1 /\ batchUpdateCalls = 1 /\ remoteCalls = 1

(* An invocation whose fetch failed ended without validating anything. *)
C21_FetchFailed ==
  /\ caller = "execute" /\ pc = "done" /\ result[1].cause = "Form not found."
  /\ Len(args.operations) = 2 /\ opIndex = 0 /\ batchUpdateCalls = 0

(* C22: with several invalid operations in a batch, the one error reported
   is that of the first invalid operation in processing order; the loop never
   goes past an invalid operation, so no later operation is bounds-checked or
   handed to a builder. *)
C22_FirstInvalidOnly ==
  Fetched =>
    /\ \A k \in 1..opIndex : ~FailsValidation(processedOps[k])
    /\ Len(requests) = opIndex
    /\ ValidationFailed =>
         /\ FailsValidation(processedOps[opIndex + 1])
         /\ result[1].opNumber = Some(operationNumber(opIndex))
         /\ result[1].cause =
              operationRequest(processedOps[opIndex + 1], form[1]).message

(* A batch of two invalid operations with different causes ended with the
   error of the one processed first. *)
C22_Witness ==
  /\ ValidationFailed
  /\ Len(processedOps) = 2 /\ opIndex = 0
  /\ FailsValidation(processedOps[1]) /\ FailsValidation(processedOps[2])
  /\ operationRequest(processedOps[1], form[1]).message #
       operationRequest(processedOps[2], form[1]).message
  /\ result[1].cause = operationRequest(processedOps[1], form[1]).message

(* C23: buildUpdateFormInfoRequest builds the mask of exactly the supplied
   fields among title and description, title first, joined by a comma, and
   an info payload of exactly those fields; an empty string is a supplied
   field, an omitted field is in neither. *)
C23_FormInfoMask ==
  (Called("buildUpdateFormInfoRequest") /\
   (args.params.title # None \/ args.params.description # None))
    => /\ result[1].type = "updateFormInfo"
       /\ result[1].updateMask =
            (IF args.params.title = None THEN "description"
             ELSE IF args.params.description = None THEN "title"
             ELSE "title,description")
       /\ result[1].info.title = args.params.title
       /\ result[1].info.description = args.params.description

(* An empty title and a description were supplied: both are in the mask. *)
C23_Witness ==
  /\ Called("buildUpdateFormInfoRequest")
  /\ args.params.title = Some("") /\ args.params.description = Some("T")
  /\ result[1].updateMask = "title,description"
  /\ result[1].info.title = Some("")

BuiltChoice(name) ==
  IsChoiceCall(name) /\ result[1].type = "createItem"

(* C30: in a request built by buildCreateItemRequest every wire option made
   from an input option has the input value and at most one of goToAction
   and goToSectionId, and the 'other' option has neither value nor branching
   field. *)
C30_AtMostOneBranchingField ==
  /\ BuiltChoice("buildCreateItemRequest_v2") =>
       \A i \in 1..Len(WireOptions) :
         IF i <= Len(args.params.options[1])
         THEN /\ WireOptions[i].value = args.params.options[1][i].value
              /\ WireOptions[i].goToAction = None \/ WireOptions[i].goToSectionId = None
         ELSE DOMAIN WireOptions[i] = {"isOther"} /\ WireOptions[i].isOther
  /\ BuiltChoice("buildCreateItemRequest") =>
       \A i \in 1..Len(WireOptions) :
         IF i <= Len(args.params.options[1])
         THEN DOMAIN WireOptions[i] = {"value"}
         ELSE DOMAIN WireOptions[i] = {"isOther"} /\ WireOptions[i].isOther

(* An option carrying both fields was built into a wire option that keeps
   goToAction only, followed by the 'other' option. *)
C30_Witness ==
  /\ BuiltChoice("buildCreateItemRequest_v2")
  /\ Len(args.params.options[1]) = 1
  /\ CarriesBoth(args.params.options[1][1])
  /\ Len(WireOptions) = 2
  /\ WireOptions[1].goToAction = args.params.options[1][1].goToAction
  /\ WireOptions[1].goToSectionId = None
  /\ WireOptions[2] = OtherOption

(* C28: a createItem request submitted by GFormService.createItem carries
   the caller's index as its location index when one was given, and the
   current item count of the form when it was omitted. *)
C28_CreateItemLocation ==
  (Called("createItem") /\ remoteRequests # None) =>
    LET p == args.params
        count == IF p.form.items # None THEN Len(p.form.items[1]) ELSE 0
        request == remoteRequests[1][1]
    IN /\ Len(remoteRequests[1]) = 1
       /\ request.type = "createItem"
       /\ request.location.index = IF p.index # None THEN p.index[1] ELSE count

(* C29: execute always ends by returning a result object; every failure
   (URL, fetch, validation, empty batch, remote rejection) is returned as a
   result with isError = TRUE and nothing is thrown; a result is an error
   exactly when the batch-apply of this invocation did not succeed, so an
   error result never follows a batch that the remote applied. *)
BatchApplied == remoteResponse # None /\ remoteResponse[1].ok

Returned == caller = "execute" /\ pc = "done"

ResultIsFaithful ==
  caller = "execute" =>
    /\ (pc = "done") <=> (result # None)
    /\ pc = "done" =>
         /\ result[1].isError \in BOOLEAN
         /\ result[1].isError <=> ~BatchApplied
    /\ BatchApplied => pc = "done"

C29_AlwaysReturnsResult ==
  /\ [] ResultIsFaithful
  /\ (caller = "execute") ~> Returned

C29_Witness ==
  /\ Returned
  /\ result[1].isError
  /\ remoteCalls = 1
  /\ ~BatchApplied

C29_ReturnedAfterApply == Returned /\ BatchApplied /\ ~result[1].isError

(* C25: with the requests of a batch applied one after another, when all the
   create_item operations of the batch carry the same insertion index i (the
   item count of the snapshot when they all omit it), the created items are
   at positions i, i+1, ... of the resulting list, in the caller's order. *)
CallerCreates == SelectSeq(args.operations, IsCreate)

DeclaredIndex(op) == OrElse(op.createItemRequest[1].index, SnapshotCount)

Applied == applyRequests(SnapshotDocument(form[1]), remoteRequests[1])

C25_CreatedItemsContiguous ==
  (/\ Submitted
   /\ CallerCreates # <<>>
   /\ DeclaredIndex(CallerCreates[1]) \in 0..SnapshotCount
   /\ \A k \in 1..Len(CallerCreates) :
        DeclaredIndex(CallerCreates[k]) = DeclaredIndex(CallerCreates[1]))
  => LET i == DeclaredIndex(CallerCreates[1]) IN
     /\ Applied.ok
     /\ Len(Applied.items) >= i + Len(CallerCreates)
     /\ \A k \in 1..Len(CallerCreates) :
          LET entry == Applied.items[i + k]
              request == operationRequest(CallerCreates[k], form[1])
          IN entry.origin = "created" /\ entry.item = Some(request.item)

(* C26: with the requests of a batch applied one after another, every
   deleteItem, updateItem and moveItem request of a submitted batch is in
   range when it is applied and acts on the item that was at its index in the
   snapshot. *)
IndexBearing(req) == req.type \in {"deleteItem", "updateItem", "moveItem"}

SourceIndex(req) ==
  IF req.type = "moveItem" THEN req.originalLocation.index ELSE req.location.index

C26_ActsOnSnapshotItem ==
  Submitted =>
    \A k \in 1..Len(remoteRequests[1]) :
      LET req == remoteRequests[1][k] IN
      IndexBearing(req) =>
        /\ Applied.ok
        /\ Applied.steps[k].target = Some(SnapshotEntry(SourceIndex(req) + 1))

(* C24: validation is a function of the operation list and of the snapshot
   of the invocation alone: two invocations with the same operations and the
   same snapshot, whatever the order of their steps and whatever another
   invocation did in between, have the same verdict, stop at the same
   position with the same error, and build the same wire requests. *)
HasValidated(p) == form[p] # None

Accepted(p) == remoteRequests[p] # None

OwnVerdict(p) ==
  buildRequests(sortBatchOperations(args[p].operations), form[p][1], 0)

C24_ValidationDeterministic ==
  /\ \A p \in Invocations :
       HasValidated(p) =>
         /\ requests[p] = OwnVerdict(p).requests
         /\ opIndex[p] = OwnVerdict(p).at
         /\ Accepted(p) <=> (~OwnVerdict(p).failed /\ requests[p] # <<>>)
         /\ Accepted(p) => remoteRequests[p] = Some(requests[p])
  /\ \A p, q \in Invocations :
       (/\ HasValidated(p) /\ HasValidated(q)
        /\ args[p].operations = args[q].operations
        /\ form[p] = form[q])
       => /\ Accepted(p) <=> Accepted(q)
          /\ opIndex[p] = opIndex[q]
          /\ requests[p] = requests[q]
          /\ remoteRequests[p] = remoteRequests[q]
          /\ ~Accepted(p) => result[p] = result[q]

C24_Witness ==
  /\ HasValidated("first") /\ HasValidated("second") /\ HasValidated("third")
  /\ args["first"].operations = <<Delete(0), Delete(1)>>
  /\ args["second"].operations = args["first"].operations
  /\ form["first"] = form["second"]
  /\ form["third"] # form["first"]
  /\ remote.log # <<>>
  /\ ~Accepted("first")
  /\ result["first"][1].opNumber = Some(2)
  /\ result["second"] = result["first"]

(* C27: invocations against one document are not coordinated: each fetches
   its snapshot once and keeps it, validates against it alone, submits at
   most once, is never held back by another invocation, and the remote
   applies every batch that arrives, whatever has changed since the snapshot
   of its sender, so that the item list is always the result of applying the
   received batches in the order of their arrival. *)
(* The invocations run the same code: the steps of one of them are shown to
   be enabled in every state of the two others. *)
NeverHeldBack(p) ==
  /\ pc[p] = "fetching" => ENABLED invocation_getFormReturns(p)
  /\ (pc[p] = "submitting" /\ remoteResponse[p] = None) => ENABLED remote_batchUpdate(p)
  /\ (pc[p] = "submitting" /\ remoteResponse[p] # None) =>
       ENABLED invocation_batchUpdateSettles(p)

Uncoordinated ==
  /\ \A p \in Invocations :
       /\ getFormCalls[p] <= 1 /\ batchUpdateCalls[p] <= 1 /\ remoteCalls[p] <= 1
       /\ HasValidated(p) => requests[p] = OwnVerdict(p).requests
       /\ remoteResponse[p] # None => Accepted(p)
  /\ NeverHeldBack("first")
  /\ Len(remote.log) = Cardinality({p \in Invocations : remoteResponse[p] # None})
  /\ remote.items = applyLog(remote.initial, remote.log)

SnapshotKept ==
  \A p \in Invocations : HasValidated(p) => form'[p] = form[p]

ArrivalOrder ==
  remote' # remote =>
    \E p \in Invocations :
      /\ pc[p] = "submitting"
      /\ remote'.log = Append(remote.log, remoteRequests[p][1])
      /\ LET applied == applyRequests(remote.items, remoteRequests[p][1]) IN
           remote'.items = IF applied.ok THEN applied.items ELSE remote.items

C27_LastSubmittedWins ==
  /\ [] Uncoordinated
  /\ [][SnapshotKept /\ ArrivalOrder]_vars

C27_Witness ==
  /\ args["first"].operations = <<Delete(0), TextCreate("A", Some(0))>>
  /\ args["second"].operations = <<Delete(0)>>
  /\ form["first"] = form["second"]
  /\ form["first"] = Some(documentForm(remote.initial))
  /\ Len(remote.initial) = 2
  /\ remote.log = <<remoteRequests["second"][1], remoteRequests["first"][1]>>
  /\ remoteResponse["first"] # None /\ remoteResponse["first"][1].ok
  /\ remoteResponse["second"] # None /\ remoteResponse["second"][1].ok
  /\ remote.items = <<SnapshotEntry(2)>>

====
